---- MODULE Spec2Model ----
(***************************************************************************)
(* Model of the parcel sorting pipeline: main.py (CompleteSortingPipeline: *)
(* run, the image monitor, the OCR worker, the Dobot worker, shutdown),    *)
(* dobot_controller.py (DobotController) and the destination decision of   *)
(* process.py (process_single_parcel).                                     *)
(*                                                                         *)
(* Thai string constants of the source are written in Latin letters:       *)
(*   "Unspecified" is the sentinel province 'ไม่ระบุ', "Reserve" is the     *)
(*   reserve drop point 'จุดสำรอง', "ChiangMai", "NakhonNayok",             *)
(*   "NakhonSawan", "SaraBuri", "ChonBuri" are the provinces of that name. *)
(***************************************************************************)
EXTENDS Integers, Sequences, FiniteSets, TLC

\* Number of image files that appear in the watched folder.
MaxFiles == 2

VARIABLES
    main_pc,          \* position of the main thread in run() / shutdown()
    typhoon_api_key,  \* TRUE iff the OCR API key is configured
    db_api_url,       \* TRUE iff the DB API URL is configured
    save_to_db,       \* config 'save_to_db'
    enable_dobot,     \* config 'enable_dobot'
    dobot_simulation, \* config 'dobot_simulation'
    is_running,       \* the shared running flag
    folder,           \* image files present in image_folder
    processed_dir,    \* image files moved to image_folder/processed
    ocr_queue,        \* Queue(): image paths waiting for OCR
    ocr_unfinished,   \* Queue.unfinished_tasks of ocr_queue
    dobot_queue,      \* Queue(): records waiting for the arm
    dobot_unfinished, \* Queue.unfinished_tasks of dobot_queue
    mon_pc,           \* position of the monitor thread
    new_files,        \* monitor: sorted(new_files) still to be visited
    processed_files,  \* monitor: the local seen-set
    ocr_pc,           \* position of the OCR worker thread
    ocr_item,         \* OCR worker: image_path taken from the queue
    dobot_pc,         \* position of the Dobot worker thread
    dobot_item,       \* Dobot worker: parcel_data taken from the queue
    pick_success,     \* Dobot worker: value returned by pick_and_place
    arm_log,          \* arm commands issued for the item in flight
    ctrl,             \* the DobotController object
    stats,            \* CompleteSortingPipeline.stats
    ocr_put_log,      \* history: order of ocr_queue.put
    ocr_get_log,      \* history: order of ocr_queue.get
    dobot_put_log,    \* history: order of dobot_queue.put (image paths)
    dobot_get_log,    \* history: order of dobot_queue.get (image paths)
    result_of,        \* history: result of process_single_parcel per image
    sort_of,          \* history: outcome of the sort stage per image
    increments,       \* history: completed `stats[key] += 1` per key
    reg,              \* per thread: the `stats[key] += 1` in progress
    call,             \* a call of a function of process.py: input, result
    province_in       \* extract_province_from_text on the texts of the records

vars == << main_pc, typhoon_api_key, db_api_url, save_to_db, enable_dobot,
           dobot_simulation, is_running, folder, processed_dir, ocr_queue,
           ocr_unfinished, dobot_queue, dobot_unfinished, mon_pc, new_files,
           processed_files, ocr_pc, ocr_item, dobot_pc, dobot_item,
           pick_success, arm_log, ctrl, stats, ocr_put_log, ocr_get_log,
           dobot_put_log, dobot_get_log, result_of, sort_of, increments, reg,
           call, province_in >>

Files == 1 .. MaxFiles

NoItem == [image_path |-> 0, province |-> "None"]

NoResult == [success |-> FALSE, province |-> "NotProcessed", db_saved |-> FALSE]

(***************************************************************************)
(* process.py: CompleteParcelSortingSystem.  A text is the sequence of its *)
(* characters, each a Unicode code point.                                  *)
(***************************************************************************)

Range(s) == { s[i] : i \in 1 .. Len(s) }

Minimum(S) == CHOOSE x \in S : \A y \in S : x <= y

Maximum(S) == CHOOSE x \in S : \A y \in S : y <= x

\* self.all_provinces, in list order.  The Thai names are written in Latin
\* letters; thai gives the characters of each name.
all_provinces ==
    <<
      "Bangkok", "Krabi", "Kanchanaburi", "Kalasin", "KamphaengPhet",
      "KhonKaen", "Chanthaburi", "Chachoengsao", "ChonBuri", "ChaiNat",
      "Chaiyaphum", "Chumphon", "ChiangRai", "ChiangMai", "Trang", "Trat",
      "Tak", "NakhonNayok", "NakhonPathom", "NakhonPhanom",
      "NakhonRatchasima", "NakhonSiThammarat", "NakhonSawan", "Nonthaburi",
      "Narathiwat", "Nan", "BuengKan", "BuriRam", "PathumThani",
      "PrachuapKhiriKhan", "PrachinBuri", "Pattani", "Ayutthaya", "Phayao",
      "PhangNga", "Phatthalung", "Phichit", "Phitsanulok", "Phetchaburi",
      "Phetchabun", "Phrae", "Phuket", "MahaSarakham", "Mukdahan",
      "MaeHongSon", "Yasothon", "Yala", "RoiEt", "Ranong", "Rayong",
      "Ratchaburi", "LopBuri", "Lampang", "Lamphun", "Loei", "SiSaKet",
      "SakonNakhon", "Songkhla", "Satun", "SamutPrakan", "SamutSongkhram",
      "SamutSakhon", "SaKaeo", "SaraBuri", "SingBuri", "Sukhothai",
      "SuphanBuri", "SuratThani", "Surin", "NongKhai", "NongBuaLamphu",
      "AngThong", "AmnatCharoen", "UdonThani", "Uttaradit", "UthaiThani",
      "UbonRatchathani"
    >>

\* The characters (Unicode code points) of the canonical names.
thai ==
    [
      Bangkok |->
        << 3585, 3619, 3640, 3591, 3648, 3607, 3614, 3617, 3627, 3634, 3609, 3588, 3619 >>,
      Krabi |->
        << 3585, 3619, 3632, 3610, 3637, 3656 >>,
      Kanchanaburi |->
        << 3585, 3634, 3597, 3592, 3609, 3610, 3640, 3619, 3637 >>,
      Kalasin |->
        << 3585, 3634, 3628, 3626, 3636, 3609, 3608, 3640, 3660 >>,
      KamphaengPhet |->
        << 3585, 3635, 3649, 3614, 3591, 3648, 3614, 3594, 3619 >>,
      KhonKaen |->
        << 3586, 3629, 3609, 3649, 3585, 3656, 3609 >>,
      Chanthaburi |->
        << 3592, 3633, 3609, 3607, 3610, 3640, 3619, 3637 >>,
      Chachoengsao |->
        << 3593, 3632, 3648, 3594, 3636, 3591, 3648, 3607, 3619, 3634 >>,
      ChonBuri |->
        << 3594, 3621, 3610, 3640, 3619, 3637 >>,
      ChaiNat |->
        << 3594, 3633, 3618, 3609, 3634, 3607 >>,
      Chaiyaphum |->
        << 3594, 3633, 3618, 3616, 3641, 3617, 3636 >>,
      Chumphon |->
        << 3594, 3640, 3617, 3614, 3619 >>,
      ChiangRai |->
        << 3648, 3594, 3637, 3618, 3591, 3619, 3634, 3618 >>,
      ChiangMai |->
        << 3648, 3594, 3637, 3618, 3591, 3651, 3627, 3617, 3656 >>,
      Trang |->
        << 3605, 3619, 3633, 3591 >>,
      Trat |->
        << 3605, 3619, 3634, 3604 >>,
      Tak |->
        << 3605, 3634, 3585 >>,
      NakhonNayok |->
        << 3609, 3588, 3619, 3609, 3634, 3618, 3585 >>,
      NakhonPathom |->
        << 3609, 3588, 3619, 3611, 3600, 3617 >>,
      NakhonPhanom |->
        << 3609, 3588, 3619, 3614, 3609, 3617 >>,
      NakhonRatchasima |->
        << 3609, 3588, 3619, 3619, 3634, 3594, 3626, 3637, 3617, 3634 >>,
      NakhonSiThammarat |->
        << 3609, 3588, 3619, 3624, 3619, 3637, 3608, 3619, 3619, 3617, 3619, 3634, 3594 >>,
      NakhonSawan |->
        << 3609, 3588, 3619, 3626, 3623, 3619, 3619, 3588, 3660 >>,
      Nonthaburi |->
        << 3609, 3609, 3607, 3610, 3640, 3619, 3637 >>,
      Narathiwat |->
        << 3609, 3619, 3634, 3608, 3636, 3623, 3634, 3626 >>,
      Nan |->
        << 3609, 3656, 3634, 3609 >>,
      BuengKan |->
        << 3610, 3638, 3591, 3585, 3634, 3628 >>,
      BuriRam |->
        << 3610, 3640, 3619, 3637, 3619, 3633, 3617, 3618, 3660 >>,
      PathumThani |->
        << 3611, 3607, 3640, 3617, 3608, 3634, 3609, 3637 >>,
      PrachuapKhiriKhan |->
        << 3611, 3619, 3632, 3592, 3623, 3610, 3588, 3637, 3619, 3637, 3586, 3633, 3609, 3608, 3660 >>,
      PrachinBuri |->
        << 3611, 3619, 3634, 3592, 3637, 3609, 3610, 3640, 3619, 3637 >>,
      Pattani |->
        << 3611, 3633, 3605, 3605, 3634, 3609, 3637 >>,
      Ayutthaya |->
        << 3614, 3619, 3632, 3609, 3588, 3619, 3624, 3619, 3637, 3629, 3618, 3640, 3608, 3618, 3634 >>,
      Phayao |->
        << 3614, 3632, 3648, 3618, 3634 >>,
      PhangNga |->
        << 3614, 3633, 3591, 3591, 3634 >>,
      Phatthalung |->
        << 3614, 3633, 3607, 3621, 3640, 3591 >>,
      Phichit |->
        << 3614, 3636, 3592, 3636, 3605, 3619 >>,
      Phitsanulok |->
        << 3614, 3636, 3625, 3603, 3640, 3650, 3621, 3585 >>,
      Phetchaburi |->
        << 3648, 3614, 3594, 3619, 3610, 3640, 3619, 3637 >>,
      Phetchabun |->
        << 3648, 3614, 3594, 3619, 3610, 3641, 3619, 3603, 3660 >>,
      Phrae |->
        << 3649, 3614, 3619, 3656 >>,
      Phuket |->
        << 3616, 3641, 3648, 3585, 3655, 3605 >>,
      MahaSarakham |->
        << 3617, 3627, 3634, 3626, 3634, 3619, 3588, 3634, 3617 >>,
      Mukdahan |->
        << 3617, 3640, 3585, 3604, 3634, 3627, 3634, 3619 >>,
      MaeHongSon |->
        << 3649, 3617, 3656, 3630, 3656, 3629, 3591, 3626, 3629, 3609 >>,
      Yasothon |->
        << 3618, 3650, 3626, 3608, 3619 >>,
      Yala |->
        << 3618, 3632, 3621, 3634 >>,
      RoiEt |->
        << 3619, 3657, 3629, 3618, 3648, 3629, 3655, 3604 >>,
      Ranong |->
        << 3619, 3632, 3609, 3629, 3591 >>,
      Rayong |->
        << 3619, 3632, 3618, 3629, 3591 >>,
      Ratchaburi |->
        << 3619, 3634, 3594, 3610, 3640, 3619, 3637 >>,
      LopBuri |->
        << 3621, 3614, 3610, 3640, 3619, 3637 >>,
      Lampang |->
        << 3621, 3635, 3611, 3634, 3591 >>,
      Lamphun |->
        << 3621, 3635, 3614, 3641, 3609 >>,
      Loei |->
        << 3648, 3621, 3618 >>,
      SiSaKet |->
        << 3624, 3619, 3637, 3626, 3632, 3648, 3585, 3625 >>,
      SakonNakhon |->
        << 3626, 3585, 3621, 3609, 3588, 3619 >>,
      Songkhla |->
        << 3626, 3591, 3586, 3621, 3634 >>,
      Satun |->
        << 3626, 3605, 3641, 3621 >>,
      SamutPrakan |->
        << 3626, 3617, 3640, 3607, 3619, 3611, 3619, 3634, 3585, 3634, 3619 >>,
      SamutSongkhram |->
        << 3626, 3617, 3640, 3607, 3619, 3626, 3591, 3588, 3619, 3634, 3617 >>,
      SamutSakhon |->
        << 3626, 3617, 3640, 3607, 3619, 3626, 3634, 3588, 3619 >>,
      SaKaeo |->
        << 3626, 3619, 3632, 3649, 3585, 3657, 3623 >>,
      SaraBuri |->
        << 3626, 3619, 3632, 3610, 3640, 3619, 3637 >>,
      SingBuri |->
        << 3626, 3636, 3591, 3627, 3660, 3610, 3640, 3619, 3637 >>,
      Sukhothai |->
        << 3626, 3640, 3650, 3586, 3607, 3633, 3618 >>,
      SuphanBuri |->
        << 3626, 3640, 3614, 3619, 3619, 3603, 3610, 3640, 3619, 3637 >>,
      SuratThani |->
        << 3626, 3640, 3619, 3634, 3625, 3598, 3619, 3660, 3608, 3634, 3609, 3637 >>,
      Surin |->
        << 3626, 3640, 3619, 3636, 3609, 3607, 3619, 3660 >>,
      NongKhai |->
        << 3627, 3609, 3629, 3591, 3588, 3634, 3618 >>,
      NongBuaLamphu |->
        << 3627, 3609, 3629, 3591, 3610, 3633, 3623, 3621, 3635, 3616, 3641 >>,
      AngThong |->
        << 3629, 3656, 3634, 3591, 3607, 3629, 3591 >>,
      AmnatCharoen |->
        << 3629, 3635, 3609, 3634, 3592, 3648, 3592, 3619, 3636, 3597 >>,
      UdonThani |->
        << 3629, 3640, 3604, 3619, 3608, 3634, 3609, 3637 >>,
      Uttaradit |->
        << 3629, 3640, 3605, 3619, 3604, 3636, 3605, 3606, 3660 >>,
      UthaiThani |->
        << 3629, 3640, 3607, 3633, 3618, 3608, 3634, 3609, 3637 >>,
      UbonRatchathani |->
        << 3629, 3640, 3610, 3621, 3619, 3634, 3594, 3608, 3634, 3609, 3637 >>
    ]

\* self.region_mapping, in insertion order.
region_mapping ==
    <<
      [region |-> "North",
       provinces |->
         {
           "ChiangMai", "ChiangRai", "Lampang", "Lamphun", "MaeHongSon",
           "Nan", "Phayao", "Phrae", "Uttaradit", "Tak", "Sukhothai",
           "Phitsanulok", "Phetchabun", "KamphaengPhet", "NakhonSawan",
           "Phichit", "UthaiThani"
         }],
      [region |-> "Northeast",
       provinces |->
         {
           "NakhonRatchasima", "KhonKaen", "UdonThani", "UbonRatchathani",
           "BuriRam", "Surin", "SiSaKet", "Yasothon", "Chaiyaphum",
           "MahaSarakham", "RoiEt", "Kalasin", "SakonNakhon",
           "NakhonPhanom", "Mukdahan", "Loei", "NongKhai", "BuengKan",
           "NongBuaLamphu", "AmnatCharoen"
         }],
      [region |-> "Central",
       provinces |->
         {
           "Bangkok", "Nonthaburi", "PathumThani", "SamutPrakan",
           "NakhonPathom", "SamutSakhon", "SamutSongkhram", "Ayutthaya",
           "AngThong", "SingBuri", "ChaiNat", "LopBuri", "SaraBuri"
         }],
      [region |-> "East",
       provinces |->
         {
           "ChonBuri", "Rayong", "Chanthaburi", "Trat", "Chachoengsao",
           "PrachinBuri", "NakhonNayok", "SaKaeo"
         }],
      [region |-> "West",
       provinces |->
         {
           "Kanchanaburi", "Ratchaburi", "SuphanBuri", "Phetchaburi",
           "PrachuapKhiriKhan"
         }],
      [region |-> "South",
       provinces |->
         {
           "Songkhla", "Phuket", "SuratThani", "NakhonSiThammarat", "Trang",
           "Phatthalung", "Pattani", "Yala", "Narathiwat", "Krabi",
           "PhangNga", "Ranong", "Chumphon", "Satun"
         }]
    >>

\* Mutant of get_region: the last region that lists the province, and the
\* Central region for a province no list holds.
get_region_default_central(province) ==
    LET hits == { i \in 1 .. Len(region_mapping) :
                     province \in region_mapping[i].provinces }
    IN  IF hits = {} THEN "Central"
        ELSE region_mapping[CHOOSE i \in hits : \A j \in hits : j <= i].region

\* get_region: the first region whose list holds the province.
get_region(province) ==
    LET hits == { i \in 1 .. Len(region_mapping) :
                     province \in region_mapping[i].provinces }
    IN  IF hits = {} THEN "UnspecifiedRegion"
        ELSE region_mapping[Minimum(hits)].region

\* determine_delivery_route: no route for an unresolved province or region,
\* else the distribution centre of the region and the province.
determine_delivery_route(province, region) ==
    IF province = "Unspecified" \/ region = "UnspecifiedRegion"
      THEN [center |-> "None", province |-> "None"]
      ELSE [center |-> region, province |-> province]

\* The characters str.strip() removes and \s matches.
WhiteSpace ==
    (9 .. 13) \cup (28 .. 32) \cup {133, 160, 5760, 8232, 8233, 8239, 8287, 12288}
      \cup (8192 .. 8202)

\* The characters \d matches in the modelled texts: ASCII and Thai digits.
Digits == (48 .. 57) \cup (3664 .. 3673)

\* [฀-๿]
ThaiBlock == 3584 .. 3711

\* The province prefixes of the patterns r'จ\.' and r'จังหวัด'.
CHO_DOT == << 3592, 46 >>

CHANGWAT == << 3592, 3633, 3591, 3627, 3623, 3633, 3604 >>

\* The first position from j on that is not in the class (Len(t) + 1 if
\* there is none).
run_end(t, j, class) ==
    IF j > Len(t) THEN j
    ELSE Minimum({ k \in j .. Len(t) + 1 : k > Len(t) \/ t[k] \notin class })

lstrip(t) == SubSeq(t, run_end(t, 1, WhiteSpace), Len(t))

rstrip(t) ==
    SubSeq(t, 1, Maximum({ k \in 0 .. Len(t) : k = 0 \/ t[k] \notin WhiteSpace }))

\* str.strip()
strip(t) == rstrip(lstrip(t))

\* text.replace(" ", "")
remove_spaces(t) == SelectSeq(t, LAMBDA c : c # 32)

\* The word w occurs in t at position i.
OccursAt(t, i, w) ==
    /\ i + Len(w) - 1 <= Len(t)
    /\ SubSeq(t, i, i + Len(w) - 1) = w

\* re.IGNORECASE on the letters of the modelled texts: A-Z match a-z.
lower(c) == IF c \in 65 .. 90 THEN c + 32 ELSE c

\* The word w (in lower case) occurs in t at position i, case ignored.
OccursFolded(t, i, w) ==
    /\ i >= 1
    /\ i + Len(w) - 1 <= Len(t)
    /\ \A k \in 1 .. Len(w) : lower(t[i + k - 1]) = w[k]

\* `w in t`
Contains(t, w) == \E i \in 1 .. Len(t) - Len(w) + 1 : OccursAt(t, i, w)

\* The longest run of [^\s\d] characters of t from position i on.
run_at(t, i) ==
    IF i > Len(t) THEN << >>
    ELSE SubSeq(t, i, Minimum({ k \in i .. Len(t) + 1 :
                                  k > Len(t)
                                    \/ t[k] \in WhiteSpace \cup Digits }) - 1)

\* re.search(prefix + r'([^\s\d]+)', t): group 1 of the leftmost match,
\* << >> when there is no match.
pattern_group(t, prefix) ==
    LET starts == { i \in 1 .. Len(t) :
                       /\ OccursAt(t, i, prefix)
                       /\ run_at(t, i + Len(prefix)) # << >> }
    IN  IF starts = {} THEN << >>
        ELSE run_at(t, Minimum(starts) + Len(prefix))

\* `for province in self.all_provinces: if <test>: return province`, for the
\* set of the provinces that pass the test.
first_province(passing) ==
    LET hits == { i \in 1 .. Len(all_provinces) : all_provinces[i] \in passing }
    IN  IF hits = {} THEN "None" ELSE all_provinces[Minimum(hits)]

\* Mutant of candidate_matches: only the first character is compared.
candidate_matches_first_char(candidate, province) ==
    Head(candidate) = Head(thai[province])

\* `province_candidate == province or province_candidate in province`
candidate_matches(candidate, province) ==
    \/ candidate = thai[province]
    \/ Contains(thai[province], candidate)

\* Pattern 1 for one of the two prefixes.
by_pattern(t, prefix) ==
    LET candidate == strip(pattern_group(t, prefix))
    IN  IF candidate = << >> THEN "None"
        ELSE first_province({ p \in Range(all_provinces) :
                                candidate_matches(candidate, p) })

\* Pattern 2: a canonical name occurs in the text, with or without spaces.
by_containment(t) ==
    first_province({ p \in Range(all_provinces) :
                       \/ Contains(t, thai[p])
                       \/ Contains(remove_spaces(t), remove_spaces(thai[p])) })

\* re.findall(r'[฀-๿]+', t) as a set: the maximal runs of Thai characters.
thai_words(t) ==
    { SubSeq(t, a, run_end(t, a, ThaiBlock) - 1) :
        a \in { i \in 1 .. Len(t) :
                  /\ t[i] \in ThaiBlock
                  /\ i = 1 \/ t[i - 1] \notin ThaiBlock } }

\* Pattern 3: a Thai word of the text is a canonical name.
by_words(t) ==
    first_province({ p \in Range(all_provinces) :
                       thai_words(thai[p]) \cap thai_words(t) # {} })

\* extract_province_from_text: the canonical name found in the text, "None"
\* for None.
extract_province_from_text(text) ==
    IF text = << >> THEN "None"
    ELSE LET t == strip(text)
         IN  IF by_pattern(t, CHO_DOT) # "None" THEN by_pattern(t, CHO_DOT)
             ELSE IF by_pattern(t, CHANGWAT) # "None"
               THEN by_pattern(t, CHANGWAT)
             ELSE IF by_containment(t) # "None" THEN by_containment(t)
             ELSE by_words(t)

(***************************************************************************)
(* smart_split_sender_recipient                                            *)
(***************************************************************************)

\* The words of sender_markers: 'ผู้ส่ง', 'sender', 'from'.
SENDER_WORDS ==
    { << 3612, 3641, 3657, 3626, 3656, 3591 >>,
      << 115, 101, 110, 100, 101, 114 >>,
      << 102, 114, 111, 109 >> }

\* The words of recipient_markers, in list order: 'ผู้รับ', 'recipient',
\* 'to'.
RECIPIENT_WORDS ==
    << << 3612, 3641, 3657, 3619, 3633, 3610 >>,
       << 114, 101, 99, 105, 112, 105, 101, 110, 116 >>,
       << 116, 111 >> >>

\* The words of phone_pattern: 'โทร', 'tel', 'phone'.
PHONE_WORDS ==
    { << 3650, 3607, 3619 >>, << 116, 101, 108 >>,
      << 112, 104, 111, 110, 101 >> }

\* [:：]
Colons == {58, 65306}

\* [0-9\s\-]
PhoneClass == (48 .. 57) \cup WhiteSpace \cup {45}

\* The shortest run of [0-9\s\-] that phone_pattern accepts.
MinPhoneRun == 9

\* The starts of the matches of word + r'\s*[:：]?': the trailing part may be
\* empty, so a marker matches wherever its word occurs.
marker_positions(t, words) ==
    { i \in 1 .. Len(t) : \E w \in words : OccursFolded(t, i, w) }

\* The end (exclusive) of the match of phone_pattern that starts at i, 0 if
\* there is none.
phone_end(t, i) ==
    LET words == { w \in PHONE_WORDS : OccursFolded(t, i, w) }
    IN  IF words = {} THEN 0
        ELSE LET j     == i + Len(CHOOSE w \in words : TRUE)
                 a     == run_end(t, j, WhiteSpace)
                 colon == a <= Len(t) /\ t[a] \in Colons
                 e1    == run_end(t, a + 1, PhoneClass)
                 e0    == run_end(t, j, PhoneClass)
             IN  IF colon /\ e1 - (a + 1) >= MinPhoneRun THEN e1
                 ELSE IF e0 - j >= MinPhoneRun THEN e0
                 ELSE 0

\* list(re.finditer(phone_pattern, text)): the starts of the matches from
\* position i on, left to right without overlap.
RECURSIVE phones_from(_, _)
phones_from(t, i) ==
    LET P == { p \in i .. Len(t) : phone_end(t, p) # 0 }
    IN  IF P = {} THEN << >>
        ELSE << Minimum(P) >> \o phones_from(t, phone_end(t, Minimum(P)))

\* re.search(pattern + r'.*$', before): the marker word occurs at i and,
\* behind the white space that follows it, no line feed comes before the
\* last character.
marker_on_last_line(before, i, w) ==
    /\ OccursFolded(before, i, w)
    /\ \A k \in run_end(before, i + Len(w), WhiteSpace) .. Len(before) - 1 :
         before[k] # 10

\* The split point of Method 2: the start of the second phone number, moved
\* back to the first recipient marker (in list order) found before it.
phone_split_point(t, phone) ==
    LET before  == SubSeq(t, 1, phone - 1)
        hits(n) == { i \in 1 .. Len(before) :
                       marker_on_last_line(before, i, RECIPIENT_WORDS[n]) }
        found   == { n \in 1 .. Len(RECIPIENT_WORDS) : hits(n) # {} }
    IN  IF found = {} THEN phone ELSE Minimum(hits(Minimum(found)))

\* Method 3: the lines are split in half; the line feed at the cut is
\* dropped by split('\n') and join.
split_in_half(t) ==
    LET feeds == { i \in 1 .. Len(t) : t[i] = 10 }
        mid   == (Cardinality(feeds) + 1) \div 2
        cut   == CHOOSE i \in feeds :
                   Cardinality({ j \in feeds : j <= i }) = mid
    IN  IF mid = 0 THEN << << >>, t >>
        ELSE << SubSeq(t, 1, cut - 1), SubSeq(t, cut + 1, Len(t)) >>

\* smart_split_sender_recipient: << sender_text, recipient_text >>.
smart_split_sender_recipient(t) ==
    LET sender_positions    == marker_positions(t, SENDER_WORDS)
        recipient_positions == marker_positions(t, Range(RECIPIENT_WORDS))
        phones              == phones_from(t, 1)
    IN  IF sender_positions # {} /\ recipient_positions # {}
          THEN LET sender_start    == Minimum(sender_positions)
                   recipient_start == Minimum(recipient_positions)
               IN  IF sender_start < recipient_start
                     THEN << strip(SubSeq(t, sender_start, recipient_start - 1)),
                             strip(SubSeq(t, recipient_start, Len(t))) >>
                     ELSE << strip(SubSeq(t, sender_start, Len(t))),
                             strip(SubSeq(t, recipient_start, sender_start - 1)) >>
        ELSE IF Len(phones) >= 2
          THEN LET split_point == phone_split_point(t, phones[2])
               IN  << strip(SubSeq(t, 1, split_point - 1)),
                      strip(SubSeq(t, split_point, Len(t))) >>
        ELSE split_in_half(t)

(***************************************************************************)
(* The fallback for OCR text that is not JSON: _extract_person_info and     *)
(* extract_data_from_text.  Each regular expression is computed as         *)
(* re.search computes it: the leftmost start, greedy parts longest first,  *)
(* lazy parts shortest first.                                              *)
(***************************************************************************)

\* \n and \r, the characters [^\n\r] excludes.
NewLines == {10, 13}

\* [:\s]
LabelSeps == {58} \cup WhiteSpace

\* The characters \w matches in the modelled texts (ASCII and Thai; the
\* Thai vowel signs above and below and the tone marks are not in \w).
WordChars ==
    (48 .. 57) \cup (65 .. 90) \cup {95} \cup (97 .. 122)
      \cup (3585 .. 3632) \cup (3634 .. 3635) \cup (3648 .. 3654)
      \cup (3664 .. 3673)

\* [A-Z0-9] under re.IGNORECASE
AlphaNumerics == (48 .. 57) \cup (65 .. 90) \cup (97 .. 122)

\* [A-Z] under re.IGNORECASE
Letters == (65 .. 90) \cup (97 .. 122)

\* The words (?:ชื่อ|name), (?:ที่อยู่|address) and (?:โทร|tel).
NAME_WORDS ==
    { << 3594, 3639, 3656, 3629 >>,
      << 110, 97, 109, 101 >> }

ADDRESS_WORDS ==
    { << 3607, 3637, 3656, 3629, 3618, 3641, 3656 >>,
      << 97, 100, 100, 114, 101, 115, 115 >> }

TEL_WORDS ==
    { << 3650, 3607, 3619 >>,
      << 116, 101, 108 >> }

\* re.search over the positions of a text.  M holds, for each position, the
\* pair of the position and of what the pattern gives when it is matched
\* there, which is 0 where it does not match.  The pair of the leftmost
\* match; << 0, 0 >> if there is no match.
leftmost(M) ==
    LET found == { m \in M : m[2] # 0 }
    IN  IF found = {} THEN << 0, 0 >>
        ELSE CHOOSE m \in found : \A o \in found : m[1] <= o[1]

\* match.group(1) for a match m that starts its group at m[1] and ends it
\* before m[2]; << >> if there is no match.
between(t, m) == IF m[2] = 0 THEN << >> ELSE SubSeq(t, m[1], m[2] - 1)

\* match.group(1) for a group that starts at s and is the longest run of
\* characters of class; << >> if s = 0 (no match).
run_from(t, s, class) ==
    IF s = 0 THEN << >> ELSE SubSeq(t, s, run_end(t, s, class) - 1)

\* `for pattern in patterns: ... break`: the first value that was kept;
\* << >> if none was.
first_kept(kept) == IF kept = << >> THEN << >> ELSE Head(kept)

\* The word of words that occurs in t at i, case ignored; << >> if none.
word_at(t, i, words) ==
    LET found == { w \in words : OccursFolded(t, i, w) }
    IN  IF found = {} THEN << >> ELSE CHOOSE w \in found : TRUE

\* \b at position i of t (between t[i-1] and t[i]).
word_boundary(t, i) ==
    LET before == i > 1 /\ i - 1 <= Len(t) /\ t[i - 1] \in WordChars
        after  == i >= 1 /\ i <= Len(t) /\ t[i] \in WordChars
    IN  before # after

\* The first position from j on that holds \n or \r (Len(t) + 1 if none).
line_end(t, j) ==
    IF j > Len(t) THEN j
    ELSE Minimum({ k \in j .. Len(t) + 1 : k > Len(t) \/ t[k] \in NewLines })

\* re.sub(r'(?:word)[:\s]*', '', t, flags=re.IGNORECASE), from position i.
RECURSIVE remove_labels(_, _, _)
remove_labels(t, i, words) ==
    LET P == { p \in i .. Len(t) : word_at(t, p, words) # << >> }
        p == Minimum(P)
    IN  IF P = {} THEN SubSeq(t, i, Len(t))
        ELSE SubSeq(t, i, p - 1)
               \o remove_labels(t, run_end(t, p + Len(word_at(t, p, words)),
                                           LabelSeps), words)

\* group.strip() followed by the re.sub that removes the labels.
clean_label(group, words) == remove_labels(strip(group), 1, words)

\* The lookahead (?=\n|ที่อยู่|address|โทร|tel|$) of the first name pattern,
\* under re.MULTILINE, at position e.
name_ahead(t, e) ==
    \/ e > Len(t)
    \/ t[e] = 10
    \/ word_at(t, e, ADDRESS_WORDS \cup TEL_WORDS) # << >>

\* The lookahead (?=\n(?:โทร|tel)|$) of the first address pattern, without
\* re.MULTILINE: $ is the end of the text or the line feed that ends it.
address_ahead(t, e) ==
    \/ e > Len(t)
    \/ e = Len(t) /\ t[e] = 10
    \/ t[e] = 10 /\ word_at(t, e + 1, TEL_WORDS) # << >>

\* The end (exclusive) of the lazy group ([^\n\r]+?) that starts at s and
\* stops at the first position where the lookahead holds; 0 if there is
\* none.  kind names the lookahead.
lazy_end(t, s, kind) ==
    LET ends == { e \in s + 1 .. line_end(t, s) :
                    IF kind = "name" THEN name_ahead(t, e)
                                     ELSE address_ahead(t, e) }
    IN  IF ends = {} THEN 0 ELSE Minimum(ends)

\* word [:\s]* ([^\n\r]+?) lookahead, matched at p: the start of the group
\* (the separators are given back one by one until the group matches), 0
\* if the pattern does not match at p.
labelled_start(t, p, words, kind) ==
    LET w == word_at(t, p, words)
        S == { s \in p + Len(w) .. run_end(t, p + Len(w), LabelSeps) :
                 lazy_end(t, s, kind) # 0 }
    IN  IF w = << >> \/ S = {} THEN 0 ELSE Maximum(S)

\* The lazy group that starts at s; << >> if s = 0 (no match).
lazy_group(t, s, kind) ==
    IF s = 0 THEN << >> ELSE SubSeq(t, s, lazy_end(t, s, kind) - 1)

\* Group 1 of re.search for such a pattern; << >> if there is no match.
labelled_group(t, words, kind) ==
    lazy_group(t,
               leftmost({ << p, labelled_start(t, p, words, kind) >> :
                            p \in 1 .. Len(t) })[2],
               kind)

\* r'^([^\n\r]+?)(?=\n)' under re.MULTILINE matched at p: the end
\* (exclusive) of the group, 0 if the pattern does not match at p.
first_line_end(t, p) ==
    IF /\ p = 1 \/ t[p - 1] = 10
       /\ line_end(t, p) > p
       /\ line_end(t, p) <= Len(t)
       /\ t[line_end(t, p)] = 10
      THEN line_end(t, p)
      ELSE 0

\* Group 1 of that pattern: the first line that is not empty and ends with
\* a line feed.
first_line(t) ==
    between(t, leftmost({ << p, first_line_end(t, p) >> : p \in 1 .. Len(t) }))

\* `for pattern in name_patterns`: the name, << >> if none is kept.
name_patterns(t) ==
    first_kept(
      SelectSeq(
        << clean_label(labelled_group(t, NAME_WORDS, "name"), NAME_WORDS),
           clean_label(first_line(t), NAME_WORDS) >>,
        LAMBDA name : Len(name) > 2))

\* Group 1 of r'(?:โทร|tel|phone)[:\s]*([0-9\s\-]{9,})': the start of the
\* group for a match at p, 0 if the pattern does not match at p.
phone_start(t, p) ==
    LET w == word_at(t, p, PHONE_WORDS)
        S == { s \in p + Len(w) .. run_end(t, p + Len(w), LabelSeps) :
                 run_end(t, s, PhoneClass) - s >= MinPhoneRun }
    IN  IF w = << >> \/ S = {} THEN 0 ELSE Maximum(S)

labelled_phone(t) ==
    run_from(t,
             leftmost({ << p, phone_start(t, p) >> : p \in 1 .. Len(t) })[2],
             PhoneClass)

\* [\s\-]
PhoneSeps == WhiteSpace \cup {45}

\* The end (exclusive) of digits{n} at i, 0 if they are not there.
digits_end(t, i, n) ==
    IF i > 0 /\ i + n - 1 <= Len(t) /\ \A k \in i .. i + n - 1 : t[k] \in Digits
      THEN i + n
      ELSE 0

\* The position behind an optional [\s\-] at i.
skip_sep(t, i) == IF i >= 1 /\ i <= Len(t) /\ t[i] \in PhoneSeps THEN i + 1 ELSE i

\* The end (exclusive) of \b(\d{3}[\s\-]?\d{3}[\s\-]?\d{4})\b matched at p,
\* 0 if it does not match; with zero set the first digit has to be 0.
plain_phone_end(t, p, zero) ==
    LET a == digits_end(t, p, 3)
        b == digits_end(t, skip_sep(t, a), 3)
        c == digits_end(t, skip_sep(t, b), 4)
    IN  IF /\ word_boundary(t, p)
           /\ (zero => t[p] = 48)
           /\ a # 0 /\ b # 0 /\ c # 0
           /\ word_boundary(t, c)
          THEN c
          ELSE 0

plain_phone(t, zero) ==
    between(t, leftmost({ << p, plain_phone_end(t, p, zero) >> :
                            p \in 1 .. Len(t) }))

\* re.sub(r'[^\d]', '', phone)
digits_only(t) == SelectSeq(t, LAMBDA c : c \in Digits)

\* `for pattern in phone_patterns`: the phone number, << >> if none is kept.
phone_patterns(t) ==
    first_kept(
      SelectSeq(
        << digits_only(labelled_phone(t)),
           digits_only(plain_phone(t, TRUE)),
           digits_only(plain_phone(t, FALSE)) >>,
        LAMBDA phone : Len(phone) >= MinPhoneRun))

\* The province prefix (จ. or จังหวัด) at p; << >> if none.
province_prefix(t, p) ==
    IF OccursAt(t, p, CHO_DOT) THEN CHO_DOT
    ELSE IF OccursAt(t, p, CHANGWAT) THEN CHANGWAT
    ELSE << >>

\* r'(?:จ\.|จังหวัด)[\s]*([^\n\r]+)' matched at p: the start of the group,
\* 0 if the pattern does not match at p.
province_line_start(t, p) ==
    LET w == province_prefix(t, p)
        S == { s \in p + Len(w) .. run_end(t, p + Len(w), WhiteSpace) :
                 s <= Len(t) /\ t[s] \notin NewLines }
    IN  IF w = << >> \/ S = {} THEN 0 ELSE Maximum(S)

\* The rest of the line from s on; << >> if s = 0 (no match).
line_from(t, s) == IF s = 0 THEN << >> ELSE SubSeq(t, s, line_end(t, s) - 1)

province_line(t) ==
    line_from(t, leftmost({ << p, province_line_start(t, p) >> :
                              p \in 1 .. Len(t) })[2])

\* `for pattern in address_patterns`: the address, << >> if none is kept.
address_patterns(t) ==
    first_kept(
      SelectSeq(
        << clean_label(labelled_group(t, ADDRESS_WORDS, "address"),
                       ADDRESS_WORDS),
           clean_label(province_line(t), ADDRESS_WORDS) >>,
        LAMBDA address : address # << >>))

\* The end (exclusive) of the run of [^\s\d,] from s on.
province_name_end(t, s) ==
    Minimum({ e \in s .. Len(t) + 1 :
                e > Len(t) \/ t[e] \in WhiteSpace \cup Digits \cup {44} })

\* r'(?:จ\.|จังหวัด)\s*([^\s\d,]+)' matched at p: the start of the group,
\* 0 if the pattern does not match at p.
province_name_start(t, p) ==
    LET s == run_end(t, p + Len(province_prefix(t, p)), WhiteSpace)
    IN  IF province_prefix(t, p) # << >> /\ province_name_end(t, s) > s
          THEN s
          ELSE 0

\* The run of [^\s\d,] from s on; << >> if s = 0 (no match).
province_name_from(t, s) ==
    IF s = 0 THEN << >> ELSE SubSeq(t, s, province_name_end(t, s) - 1)

\* Group 1 of that pattern (Layer 3), << >> if there is no match.
province_patterns(t) ==
    province_name_from(t, leftmost({ << p, province_name_start(t, p) >> :
                                       p \in 1 .. Len(t) })[2])

\* A province found, as the dict field holds it: "" for None.
or_empty(province) == IF province = "None" THEN "" ELSE province

\* The province of a text that is looked at only if it is not empty.
province_if_any(text) ==
    IF text # << >> THEN or_empty(extract_province_from_text(text)) ELSE ""

\* The first layer that found a province; "" if none did.
first_found(found) == IF found = << >> THEN "" ELSE Head(found)

\* The three layers of the recipient's province.
recipient_province(t, address) ==
    first_found(
      SelectSeq(
        << province_if_any(address),
           or_empty(extract_province_from_text(t)),
           province_if_any(strip(province_patterns(t))) >>,
        LAMBDA province : province # ""))

\* The info dict, given the address that was kept.
info_with_address(t, is_recipient, address) ==
    [name     |-> name_patterns(t),
     phone    |-> phone_patterns(t),
     address  |-> address,
     province |-> IF is_recipient THEN recipient_province(t, address)
                                  ELSE province_if_any(address)]

\* _extract_person_info(text, is_recipient): the info dict.
extract_person_info(t, is_recipient) ==
    info_with_address(t, is_recipient, address_patterns(t))

\* {"name": "", "phone": "", "address": "", "province": ""}
EmptyInfo ==
    [name |-> << >>, phone |-> << >>, address |-> << >>, province |-> ""]

\* The words of tracking_patterns.
TRACKING == << 116, 114, 97, 99, 107, 105, 110, 103 >>

NUMBER == << 110, 117, 109, 98, 101, 114 >>

LEK == << 3648, 3621, 3586 >>

LEK_WORDS ==
    { << 3614, 3633, 3626, 3604, 3640 >>,
      << 3605, 3636, 3604, 3605, 3634, 3617 >> }

\* word (?:more)? [:\s]* ([A-Z0-9]+) behind position j, where the optional
\* word more occurs at j or not: the start of the group, 0 if no group.
tracking_group_start(t, j, more) ==
    LET w  == word_at(t, j, more)
        s1 == run_end(t, j + Len(w), LabelSeps)
        s0 == run_end(t, j, LabelSeps)
    IN  IF w # << >> /\ run_end(t, s1, AlphaNumerics) > s1 THEN s1
        ELSE IF run_end(t, s0, AlphaNumerics) > s0 THEN s0
        ELSE 0

\* r'tracking[_\s]*(?:number)?[:\s]*([A-Z0-9]+)' matched at p.
tracking_start(t, p) ==
    IF OccursFolded(t, p, TRACKING)
      THEN tracking_group_start(
             t, run_end(t, p + Len(TRACKING), {95} \cup WhiteSpace), {NUMBER})
      ELSE 0

\* r'เลข(?:พัสดุ|ติดตาม)?[:\s]*([A-Z0-9]+)' matched at p.
lek_start(t, p) ==
    IF OccursAt(t, p, LEK)
      THEN tracking_group_start(t, p + Len(LEK), LEK_WORDS)
      ELSE 0

\* r'\b([A-Z]{2,}\d{8,})\b' matched at p: the end (exclusive), 0 if none.
code_end(t, p) ==
    LET l == run_end(t, p, Letters)
        d == run_end(t, l, Digits)
    IN  IF word_boundary(t, p) /\ l - p >= 2 /\ d - l >= 8
             /\ word_boundary(t, d)
          THEN d
          ELSE 0

\* `for pattern in tracking_patterns`: the tracking number, << >> if none.
tracking_patterns(t) ==
    first_kept(
      SelectSeq(
        << run_from(t,
                    leftmost({ << p, tracking_start(t, p) >> :
                                 p \in 1 .. Len(t) })[2],
                    AlphaNumerics),
           run_from(t,
                    leftmost({ << p, lek_start(t, p) >> :
                                 p \in 1 .. Len(t) })[2],
                    AlphaNumerics),
           between(t, leftmost({ << p, code_end(t, p) >> :
                                   p \in 1 .. Len(t) })) >>,
        LAMBDA group : group # << >>))

\* The info dict of a half; the initial dict if the half is empty.
info_of_half(text, is_recipient) ==
    IF text # << >> THEN extract_person_info(text, is_recipient) ELSE EmptyInfo

\* The record made from the two halves of t.
data_from_halves(t, halves) ==
    [sender          |-> info_of_half(halves[1], FALSE),
     recipient       |-> info_of_half(halves[2], TRUE),
     tracking_number |-> tracking_patterns(t)]

\* extract_data_from_text(text): the record made from plain text.
extract_data_from_text(t) ==
    data_from_halves(t, smart_split_sender_recipient(t))

(***************************************************************************)
(* normalize_ocr_json_result.  A sender or recipient field of a decoded    *)
(* record is absent ("missing"), null, the empty object {}, an object with *)
(* the four person fields ("dict"), or a string ("str").                   *)
(***************************************************************************)

Missing == [kind |-> "missing", text |-> << >>, info |-> EmptyInfo]

Null == [kind |-> "null", text |-> << >>, info |-> EmptyInfo]

EmptyObject == [kind |-> "empty", text |-> << >>, info |-> EmptyInfo]

Dict(info) == [kind |-> "dict", text |-> << >>, info |-> info]

Str(text) == [kind |-> "str", text |-> text, info |-> EmptyInfo]

\* `len(sender) > 100`
LongSender == 100

\* The record with sender and recipient extracted from the two halves.
extract_halves(data, halves) ==
    [data EXCEPT !.sender = Dict(extract_person_info(halves[1], FALSE)),
                 !.recipient = Dict(extract_person_info(halves[2], TRUE))]

\* The record with sender and recipient extracted from the two halves of
\* text.
split_and_extract(data, text) ==
    extract_halves(data, smart_split_sender_recipient(text))

\* Case 1: the sender is a string of more than 100 characters.
sender_holds_all(data) ==
    data.sender.kind = "str" /\ Len(data.sender.text) > LongSender

\* Case 2: the recipient is a string.
recipient_is_text(data) == data.recipient.kind = "str"

\* Case 3: the recipient is absent or falsy.
recipient_is_absent(data) == data.recipient.kind \in {"missing", "null", "empty"}

\* Mutant of normalize_ocr_json_result: a record without recipient whose
\* sender is no string gets an empty recipient object with the four fields.
normalize_ocr_json_result_fills_recipient(data) ==
    IF \/ sender_holds_all(data)
       \/ /\ ~recipient_is_text(data)
          /\ recipient_is_absent(data)
          /\ data.sender.kind = "str"
      THEN split_and_extract(data, data.sender.text)
    ELSE IF recipient_is_text(data)
      THEN [data EXCEPT !.recipient =
                           Dict(extract_person_info(data.recipient.text, TRUE))]
    ELSE IF recipient_is_absent(data)
      THEN [data EXCEPT !.recipient = Dict(EmptyInfo)]
    ELSE data

\* normalize_ocr_json_result(data).  The sender's text is split in Case 1,
\* and in Case 3 if the sender is a string; Case 2 is tried after Case 1
\* and before Case 3.
normalize_ocr_json_result(data) ==
    IF \/ sender_holds_all(data)
       \/ /\ ~recipient_is_text(data)
          /\ recipient_is_absent(data)
          /\ data.sender.kind = "str"
      THEN split_and_extract(data, data.sender.text)
    ELSE IF recipient_is_text(data)
      THEN [data EXCEPT !.recipient =
                           Dict(extract_person_info(data.recipient.text, TRUE))]
    ELSE data

(***************************************************************************)
(* Decoded records.  The texts of a record are named: "" is the empty      *)
(* string, "Unspecified" the sentinel, a canonical name stands for itself, *)
(* "Bangkok(Latin)" is a text without a canonical name; Spell gives their  *)
(* characters.  "10110(number)" is a JSON number, not a text.              *)
(***************************************************************************)

Texts == {"", "Unspecified", "ChiangMai", "ChonBuri", "Bangkok(Latin)"}

NotText == "10110(number)"

Spell(text) ==
    CASE text = "" -> << >>
      [] text = "Unspecified" -> << 3652, 3617, 3656, 3619, 3632, 3610, 3640 >>
      [] text = "Bangkok(Latin)" -> << 66, 97, 110, 103, 107, 111, 107 >>
      [] OTHER -> thai[text]

\* extract_province_from_text on the named texts; province_in holds this
\* table, evaluated once.
province_table == [text \in Texts |-> extract_province_from_text(Spell(text))]

\* A decoded sender or recipient object.  filled is FALSE for the empty
\* dict {} (and for a missing key, which .get(key, {}) turns into {}).
EmptyDict ==
    [filled |-> FALSE, province |-> "", address |-> "", name |-> "",
     phone |-> ""]

\* The sender objects: the empty dict, or a dict with its four fields.
Senders ==
    {EmptyDict} \cup
    [filled : {TRUE}, province : {"", "ChonBuri", NotText},
     address : {"", "ChiangMai"}, name : {"", "A"}, phone : {"", "081"}]

\* The recipient objects.
Recipients ==
    {EmptyDict} \cup
    [filled : {TRUE}, province : Texts,
     address : {"", "ChiangMai", "Bangkok(Latin)"}, name : {"", "B"},
     phone : {""}]

\* The decoded records (parcel_data).
Records == [sender : Senders, recipient : Recipients]

\* normalize_province_data, sender part.
normalize_sender_province(sender) ==
    IF sender.province # "" /\ province_in[sender.province] # "None"
      THEN [sender EXCEPT !.province = province_in[sender.province]]
      ELSE sender

\* normalize_province_data, recipient part.
normalize_province_data(recipient) ==
    LET fromProvince == province_in[recipient.province]
        fromAddress  == province_in[recipient.address]
    IN  IF recipient.province # "" /\ fromProvince # "None"
          THEN [recipient EXCEPT !.province = fromProvince]
        ELSE IF recipient.address # "" /\ fromAddress # "None"
          THEN [recipient EXCEPT !.province = fromAddress]
        ELSE recipient

\* process_single_parcel step 5: the destination province of a recipient dict.
destination_province(recipient) ==
    LET province == recipient.province
        found    == province_in[recipient.address]
    IN  IF province # "" /\ province # "Unspecified" THEN province
        ELSE IF recipient.address # "" /\ found # "None" THEN found
        ELSE "Unspecified"

\* The result of a run that failed (the result dict as initialised).
FailedResult ==
    [success |-> FALSE, province |-> "None", region |-> "None",
     delivery_route |-> [center |-> "None", province |-> "None"]]

\* process_single_parcel from the decoded record on (steps 3 to 8): the
\* test for an empty record, the normalisation, the destination, the region
\* and the route.  extract_province_from_text raises for a province that is
\* truthy and not a string (it has no strip()), which the handler of
\* process_single_parcel turns into a failed result.
parcel_result(record) ==
    IF ~record.sender.filled /\ ~record.recipient.filled
      THEN FailedResult
    ELSE IF record.sender.province \notin Texts
      THEN FailedResult
    ELSE LET sender    == normalize_sender_province(record.sender)
             recipient == normalize_province_data(record.recipient)
             province  == destination_province(recipient)
             region    == get_region(province)
         IN  [success |-> TRUE, province |-> province, region |-> region,
              delivery_route |-> determine_delivery_route(province, region)]

\* What the OCR collaborator and the decoding produce for an image:
\* ocr = "empty" (no text), "nodata" (no record decoded), "raise" (an
\* exception inside the try block), or "record" with the decoded record.
Labels ==
    [ocr : {"empty", "nodata", "raise"},
     record : {[sender |-> EmptyDict, recipient |-> EmptyDict]}]
    \cup
    [ocr : {"record"},
     record : { r \in Records :
                  r.sender.address = "" /\ r.sender.phone = ""
                    /\ r.recipient.name = ""
                    /\ (r.sender.filled => r.sender.name = "A") }]

\* How DatabaseAPI.save_parcel_to_db can answer.
DbResponses == {"saved", "rejected"}

\* process_single_parcel as the pipeline sees it: success, province and
\* db_saved.  save is `save_to_db and self.db_api`, db the DB's response.
process_single_parcel(label, save, db) ==
    LET result == IF label.ocr # "record" THEN FailedResult
                  ELSE parcel_result(label.record)
    IN  [success |-> result.success,
         province |-> result.province,
         db_saved |-> (result.success /\ save /\ db = "saved")]

(***************************************************************************)
(* dobot_controller.py                                                     *)
(***************************************************************************)

DROP_POINTS == {"NakhonNayok", "NakhonSawan", "ChiangMai", "SaraBuri"}

NoController ==
    [exists |-> FALSE, simulation_mode |-> FALSE, is_connected |-> FALSE,
     dobot |-> FALSE,
     stats |-> [total_picks |-> 0, successful_drops |-> 0, failed_drops |-> 0,
                by_province |-> [p \in DROP_POINTS \cup {"Reserve"} |-> 0]]]

\* DobotController.__init__
NewController(simulation) ==
    [NoController EXCEPT !.exists = TRUE, !.simulation_mode = simulation]

\* How the vendor connection can go: the port opens and is set up, the
\* port does not open, or it opens and the set-up (speed) call raises.
ConnectOutcomes == {"ok", "open_failed", "setup_failed"}

\* Mutant of connect: a failed connection leaves the controller
\* disconnected.
connect_stays_disconnected(c, outcome) ==
    IF c.simulation_mode
      THEN [c EXCEPT !.is_connected = TRUE]
    ELSE IF outcome = "ok"
      THEN [c EXCEPT !.dobot = TRUE, !.is_connected = TRUE]
    ELSE [c EXCEPT !.dobot = (outcome = "setup_failed"),
                   !.simulation_mode = TRUE]

\* DobotController.connect.  After a successful connection the arm is sent
\* Home once, before any worker thread exists.
connect(c, outcome) ==
    IF c.simulation_mode
      THEN [c EXCEPT !.is_connected = TRUE]
    ELSE IF outcome = "ok"
      THEN [c EXCEPT !.dobot = TRUE, !.is_connected = TRUE]
    ELSE [c EXCEPT !.dobot = (outcome = "setup_failed"),
                   !.simulation_mode = TRUE, !.is_connected = TRUE]

\* Mutant of Cmd: a command goes to the handle whenever one was created,
\* simulation mode or not.
Cmd_ignores_simulation(c, name, at, n, failAt) ==
    [cmd |-> name, at |-> at,
     sent |-> c.dobot,
     raised |-> (c.dobot /\ n = failAt)]

\* One arm command: sent tells whether it went to the physical handle,
\* raised whether the vendor call raised (caught inside move_to /
\* suction_on / suction_off).
Cmd(c, name, at, n, failAt) ==
    [cmd |-> name, at |-> at,
     sent |-> (~c.simulation_mode /\ c.dobot),
     raised |-> (~c.simulation_mode /\ c.dobot /\ n = failAt)]

\* move_to_pickup: above the pickup point at SAFETY_Z, then down.
move_to_pickup(c, failAt) ==
    << Cmd(c, "PickApproach", "PICKUP", 1, failAt),
       Cmd(c, "PickDescend", "PICKUP", 2, failAt) >>

\* move_to_drop: the commands issued and the value returned.
move_to_drop(c, province, failAt) ==
    IF province \notin DROP_POINTS
      THEN [cmds |-> << >>, ok |-> FALSE]
      ELSE [cmds |-> << Cmd(c, "DropApproach", province, 5, failAt),
                        Cmd(c, "DropDescend", province, 6, failAt) >>,
            ok |-> TRUE]

\* Number of arm commands of a complete pick-and-place sequence.
NumCmds == 8

\* The commands of a complete pick_and_place, in the order of its code.
PICK_SEQUENCE ==
    << "PickApproach", "PickDescend", "SuctionOn", "LiftAfterPick",
       "DropApproach", "DropDescend", "SuctionOff", "LiftAfterDrop" >>

\* Where the arm is after the first n commands of log: the point it is
\* over and its height.  PickApproach, LiftAfterPick, DropApproach and
\* LiftAfterDrop go to SAFETY_Z over their point, PickDescend and
\* DropDescend go down to the point, Home goes to HOME; the suction
\* commands do not move the arm, and a command whose vendor call raised
\* leaves it where it was.  init is the position before the first command.
RECURSIVE arm_position(_, _, _)
arm_position(log, n, init) ==
    IF n = 0 THEN init
    ELSE LET c == log[n]
         IN  IF c.raised \/ c.cmd \in {"SuctionOn", "SuctionOff"}
               THEN arm_position(log, n - 1, init)
             ELSE IF c.cmd \in {"PickDescend", "DropDescend"}
               THEN [at |-> c.at, z |-> "POINT_Z"]
             ELSE IF c.cmd = "Home"
               THEN [at |-> "HOME", z |-> "HOME_Z"]
             ELSE [at |-> c.at, z |-> "SAFETY_Z"]

\* Mutant of pick_and_place: a call on a controller that is not connected
\* is counted as a failed drop.
pick_and_place_counts_unconnected(c, province, failAt) ==
    IF ~c.is_connected
      THEN [cmds |-> << >>, ok |-> FALSE,
            ctrl |-> [c EXCEPT !.stats.failed_drops = @ + 1]]
      ELSE
        LET pick   == move_to_pickup(c, failAt)
                        \o << Cmd(c, "SuctionOn", "PICKUP", 3, failAt),
                              Cmd(c, "LiftAfterPick", "PICKUP", 4, failAt) >>
            target == IF province \in DROP_POINTS THEN province ELSE "Reserve"
            drop   == move_to_drop(c, target, failAt)
        IN  IF ~drop.ok
              THEN [cmds |-> pick, ok |-> FALSE,
                    ctrl |-> [c EXCEPT !.stats.failed_drops = @ + 1]]
              ELSE [cmds |-> pick \o drop.cmds
                               \o << Cmd(c, "SuctionOff", target, 7, failAt),
                                     Cmd(c, "LiftAfterDrop", target, 8, failAt) >>,
                    ok |-> TRUE,
                    ctrl |-> [c EXCEPT !.stats.total_picks = @ + 1,
                                       !.stats.successful_drops = @ + 1,
                                       !.stats.by_province[target] = @ + 1]]

\* pick_and_place(province): the commands issued, the value returned and
\* the controller afterwards.  failAt is the command whose vendor call
\* raises (0: none); move_to, suction_on and suction_off catch it, so it
\* never reaches the except block of pick_and_place.
pick_and_place(c, province, failAt) ==
    IF ~c.is_connected
      THEN [cmds |-> << >>, ok |-> FALSE, ctrl |-> c]
      ELSE
        LET pick   == move_to_pickup(c, failAt)
                        \o << Cmd(c, "SuctionOn", "PICKUP", 3, failAt),
                              Cmd(c, "LiftAfterPick", "PICKUP", 4, failAt) >>
            target == IF province \in DROP_POINTS THEN province ELSE "Reserve"
            drop   == move_to_drop(c, target, failAt)
        IN  IF ~drop.ok
              THEN [cmds |-> pick, ok |-> FALSE,
                    ctrl |-> [c EXCEPT !.stats.failed_drops = @ + 1]]
              ELSE [cmds |-> pick \o drop.cmds
                               \o << Cmd(c, "SuctionOff", target, 7, failAt),
                                     Cmd(c, "LiftAfterDrop", target, 8, failAt) >>,
                    ok |-> TRUE,
                    ctrl |-> [c EXCEPT !.stats.total_picks = @ + 1,
                                       !.stats.successful_drops = @ + 1,
                                       !.stats.by_province[target] = @ + 1]]

(***************************************************************************)
(* main.py: CompleteSortingPipeline                                        *)
(***************************************************************************)

\* config 'auto_process' (default True, and True in main()).
auto_process == TRUE

\* The keys of CompleteSortingPipeline.stats.
StatKeys ==
    {"images_captured", "ocr_processed", "ocr_success", "ocr_failed",
     "dobot_sorted", "dobot_failed", "db_saved", "db_failed"}

\* The threads that write the statistics.
Threads == {"monitor", "ocr", "dobot"}

\* No `stats[key] += 1` in progress.
NoIncrement == [key |-> "None", loaded |-> 0]

\* No function call under examination.
NoCall == [fn |-> "None"]

\* __init__: empty queues, no thread, is_running False, zero statistics.
\* The OCR key and the Dobot configuration are free.  save is config
\* 'save_to_db'; DB_API_URL is free when it is set and is not read otherwise.
Constructed(save) ==
    /\ main_pc = "idle"
    /\ typhoon_api_key \in BOOLEAN
    /\ save_to_db = save
    /\ db_api_url \in (IF save THEN BOOLEAN ELSE {FALSE})
    /\ enable_dobot \in BOOLEAN
    /\ dobot_simulation \in BOOLEAN
    /\ is_running = FALSE
    /\ folder = {}
    /\ processed_dir = {}
    /\ ocr_queue = << >>
    /\ ocr_unfinished = 0
    /\ dobot_queue = << >>
    /\ dobot_unfinished = 0
    /\ mon_pc = "none"
    /\ new_files = << >>
    /\ processed_files = {}
    /\ ocr_pc = "none"
    /\ ocr_item = 0
    /\ dobot_pc = "none"
    /\ dobot_item = NoItem
    /\ pick_success = FALSE
    /\ arm_log = << >>
    /\ ctrl = NoController
    /\ stats = [k \in StatKeys |-> 0]
    /\ ocr_put_log = << >>
    /\ ocr_get_log = << >>
    /\ dobot_put_log = << >>
    /\ dobot_get_log = << >>
    /\ result_of = [f \in Files |-> NoResult]
    /\ sort_of = [f \in Files |-> "none"]
    /\ increments = [k \in StatKeys |-> 0]
    /\ reg = [t \in Threads |-> NoIncrement]
    /\ province_in = province_table

\* The pipeline with no function call under examination.
InitPipeline(save) == Constructed(save) /\ call = NoCall

\* The pipeline as constructed by default: DB persistence off.
Init == InitPipeline(FALSE)

\* The pipeline as constructed by main(): DB persistence requested.
InitDb == InitPipeline(TRUE)

\* Mutant of queue_put: the item is inserted at the head.
queue_put_front(q, item) == << item >> \o q

\* The queue after Queue.put(item).
queue_put(q, item) == Append(q, item)

\* Mutant of queue_get: the item is returned and left on the queue.
queue_get_peek(q) == [item |-> Head(q), rest |-> q]

\* Mutant of queue_get: the newest item is taken (a LIFO queue).
queue_get_lifo(q) == [item |-> q[Len(q)], rest |-> SubSeq(q, 1, Len(q) - 1)]

\* The item Queue.get() returns and the queue it leaves.
queue_get(q) == [item |-> Head(q), rest |-> Tail(q)]

\* A thread object exists and has not left its loop.
Alive(pc) == pc \notin {"none", "done", "killed"}

\* The camera (or anything else) saves a new image into the watched folder.
\* File names carry a timestamp, so they appear in increasing order.
capture_image ==
    /\ Cardinality(folder \cup processed_dir) < MaxFiles
    /\ LET f == Cardinality(folder \cup processed_dir) + 1
       IN  folder' = folder \cup {f}
    /\ UNCHANGED << main_pc, typhoon_api_key, db_api_url, save_to_db,
                    enable_dobot, dobot_simulation, is_running, processed_dir,
                    ocr_queue, ocr_unfinished, dobot_queue, dobot_unfinished,
                    mon_pc, new_files, processed_files, ocr_pc, ocr_item,
                    dobot_pc, dobot_item, pick_success, arm_log, ctrl, stats,
                    ocr_put_log, ocr_get_log, dobot_put_log, dobot_get_log,
                    result_of, sort_of, increments, reg, call, province_in >>

\* Mutant of validate_configuration: the OCR key is not checked.
validate_configuration_no_key == ~(save_to_db /\ ~db_api_url)

\* validate_configuration, the value returned: False iff `errors` is not
\* empty: the OCR key is missing, or save_to_db is set and DB_API_URL is
\* missing.
validate_configuration ==
    /\ typhoon_api_key
    /\ ~(save_to_db /\ ~db_api_url)

\* validate_configuration, its effect on self.save_to_db: cleared when
\* DB_API_URL is missing.
validated_save_to_db == save_to_db /\ db_api_url

\* self.db_api of the OCR processor exists: initialize_components passes the
\* DB settings only when save_to_db (DB_API_KEY is taken to be configured
\* whenever DB_API_URL is).
db_api == save_to_db /\ db_api_url

\* initialize_components, the controller part: built and connected only
\* when enable_dobot.
initialize_components(outcome) ==
    IF enable_dobot
      THEN connect(NewController(dobot_simulation), outcome)
      ELSE NoController

\* run(), up to the blocking loop of camera.run(): validate, initialise,
\* set the flag, start the worker threads and open the camera.  When the
\* camera does not open, camera.run() returns at once ("camera_failed").
run_with_camera(opened) ==
    /\ main_pc = "idle"
    /\ save_to_db' = validated_save_to_db
    /\ IF ~validate_configuration
         THEN /\ main_pc' = "halted"
              /\ UNCHANGED << is_running, ctrl, ocr_pc, dobot_pc, mon_pc >>
         ELSE /\ \E outcome \in ConnectOutcomes :
                    ctrl' = initialize_components(outcome)
              /\ is_running' = TRUE
              /\ ocr_pc' = IF auto_process THEN "top" ELSE "none"
              /\ dobot_pc' = IF auto_process /\ enable_dobot THEN "top" ELSE "none"
              /\ mon_pc' = IF auto_process THEN "top" ELSE "none"
              /\ main_pc' = IF opened THEN "camera" ELSE "camera_failed"
    /\ UNCHANGED << typhoon_api_key, db_api_url, enable_dobot,
                    dobot_simulation, folder, processed_dir, ocr_queue,
                    ocr_unfinished, dobot_queue, dobot_unfinished, new_files,
                    processed_files, ocr_item, dobot_item, pick_success,
                    arm_log, stats, ocr_put_log, ocr_get_log, dobot_put_log,
                    dobot_get_log, result_of, sort_of, increments, reg, call,
                    province_in >>

\* run(): the camera opens or not.
run == \E opened \in BOOLEAN : run_with_camera(opened)

(***************************************************************************)
(* monitor_new_images                                                      *)
(***************************************************************************)

\* sorted(s) for a set of file numbers.
RECURSIVE sorted(_)
sorted(s) ==
    IF s = {} THEN << >>
    ELSE LET m == CHOOSE x \in s : \A y \in s : x <= y
         IN  << m >> \o sorted(s \ {m})

\* `while self.is_running`: leave the loop or start an iteration.
monitor_check_running ==
    /\ mon_pc = "top"
    /\ mon_pc' = IF is_running THEN "scan" ELSE "done"
    /\ UNCHANGED << main_pc, typhoon_api_key, db_api_url, save_to_db,
                    enable_dobot, dobot_simulation, is_running, folder,
                    processed_dir, ocr_queue, ocr_unfinished, dobot_queue,
                    dobot_unfinished, new_files, processed_files, ocr_pc,
                    ocr_item, dobot_pc, dobot_item, pick_success, arm_log,
                    ctrl, stats, ocr_put_log, ocr_get_log, dobot_put_log,
                    dobot_get_log, result_of, sort_of, increments, reg, call,
                    province_in >>

\* os.listdir and new_files = current_files - processed_files; with no new
\* file the iteration ends in sleep(process_interval).
monitor_scan ==
    /\ mon_pc = "scan"
    /\ new_files' = sorted(folder \ processed_files)
    /\ mon_pc' = IF folder \ processed_files = {} THEN "top" ELSE "iter"
    /\ UNCHANGED << main_pc, typhoon_api_key, db_api_url, save_to_db,
                    enable_dobot, dobot_simulation, is_running, folder,
                    processed_dir, ocr_queue, ocr_unfinished, dobot_queue,
                    dobot_unfinished, processed_files, ocr_pc, ocr_item,
                    dobot_pc, dobot_item, pick_success, arm_log, ctrl, stats,
                    ocr_put_log, ocr_get_log, dobot_put_log, dobot_get_log,
                    result_of, sort_of, increments, reg, call, province_in >>

\* os.listdir raises inside the try block: the handler prints, sleeps and
\* the loop goes on with the same seen-set.
monitor_scan_raises ==
    /\ mon_pc = "scan"
    /\ mon_pc' = "top"
    /\ UNCHANGED << main_pc, typhoon_api_key, db_api_url, save_to_db,
                    enable_dobot, dobot_simulation, is_running, folder,
                    processed_dir, ocr_queue, ocr_unfinished, dobot_queue,
                    dobot_unfinished, new_files, processed_files, ocr_pc,
                    ocr_item, dobot_pc, dobot_item, pick_success, arm_log,
                    ctrl, stats, ocr_put_log, ocr_get_log, dobot_put_log,
                    dobot_get_log, result_of, sort_of, increments, reg, call,
                    province_in >>

\* Mutant of mark_seen: the file is not added to the seen-set.
mark_seen_forgets(seen, f) == seen

\* The seen-set after a file has been enqueued.
mark_seen(seen, f) == seen \cup {f}

\* One turn of `for filename in sorted(new_files)`: if the file still
\* exists, wait, put it on the OCR queue, mark it seen and count it.
monitor_enqueue ==
    /\ mon_pc = "iter"
    /\ new_files # << >>
    /\ LET f == Head(new_files)
       IN  IF f \in folder
             THEN /\ ocr_queue' = queue_put(ocr_queue, f)
                  /\ ocr_unfinished' = ocr_unfinished + 1
                  /\ processed_files' = mark_seen(processed_files, f)
                  /\ stats' = [stats EXCEPT !.images_captured = @ + 1]
                  /\ ocr_put_log' = Append(ocr_put_log, f)
             ELSE UNCHANGED << ocr_queue, ocr_unfinished, processed_files,
                               stats, ocr_put_log >>
    /\ new_files' = Tail(new_files)
    /\ mon_pc' = IF Tail(new_files) = << >> THEN "top" ELSE "iter"
    /\ UNCHANGED << main_pc, typhoon_api_key, db_api_url, save_to_db,
                    enable_dobot, dobot_simulation, is_running, folder,
                    processed_dir, dobot_queue, dobot_unfinished, ocr_pc,
                    ocr_item, dobot_pc, dobot_item, pick_success, arm_log,
                    ctrl, ocr_get_log, dobot_put_log, dobot_get_log, result_of,
                    sort_of, increments, reg, call, province_in >>

(***************************************************************************)
(* ocr_worker                                                              *)
(***************************************************************************)

\* `while self.is_running`
ocr_check_running ==
    /\ ocr_pc = "top"
    /\ ocr_pc' = IF is_running THEN "poll" ELSE "done"
    /\ UNCHANGED << main_pc, typhoon_api_key, db_api_url, save_to_db,
                    enable_dobot, dobot_simulation, is_running, folder,
                    processed_dir, ocr_queue, ocr_unfinished, dobot_queue,
                    dobot_unfinished, mon_pc, new_files, processed_files,
                    ocr_item, dobot_pc, dobot_item, pick_success, arm_log,
                    ctrl, stats, ocr_put_log, ocr_get_log, dobot_put_log,
                    dobot_get_log, result_of, sort_of, increments, reg, call,
                    province_in >>

\* `if not self.ocr_queue.empty()`: get the next image, else sleep(0.5).
ocr_poll ==
    /\ ocr_pc = "poll"
    /\ IF ocr_queue # << >>
         THEN /\ ocr_item' = queue_get(ocr_queue).item
              /\ ocr_queue' = queue_get(ocr_queue).rest
              /\ ocr_get_log' = Append(ocr_get_log, queue_get(ocr_queue).item)
              /\ ocr_pc' = "call"
         ELSE /\ ocr_pc' = "top"
              /\ UNCHANGED << ocr_item, ocr_queue, ocr_get_log >>
    /\ UNCHANGED << main_pc, typhoon_api_key, db_api_url, save_to_db,
                    enable_dobot, dobot_simulation, is_running, folder,
                    processed_dir, ocr_unfinished, dobot_queue,
                    dobot_unfinished, mon_pc, new_files, processed_files,
                    dobot_pc, dobot_item, pick_success, arm_log, ctrl, stats,
                    ocr_put_log, dobot_put_log, dobot_get_log, result_of,
                    sort_of, increments, reg, call, province_in >>

\* Mutant of route_to_dobot: the sentinel province is not excluded.
route_to_dobot_sentinel(result) ==
    /\ result.success
    /\ enable_dobot
    /\ result.province \notin {"None", ""}

\* The hand-over condition of the OCR worker.
route_to_dobot(result) ==
    /\ result.success
    /\ enable_dobot
    /\ result.province \notin {"None", ""}
    /\ result.province # "Unspecified"

\* process_single_parcel returns; statistics, hand-over to the Dobot
\* queue, task_done.
ocr_process ==
    /\ ocr_pc = "call"
    /\ \E label \in Labels, db \in DbResponses :
         LET result == process_single_parcel(label, save_to_db /\ db_api, db)
         IN  /\ result_of' = [result_of EXCEPT ![ocr_item] = result]
             /\ stats' = [stats EXCEPT
                    !.ocr_processed = @ + 1,
                    !.ocr_success = IF result.success THEN @ + 1 ELSE @,
                    !.db_saved = IF result.db_saved THEN @ + 1 ELSE @,
                    !.ocr_failed = IF result.success THEN @ ELSE @ + 1]
             /\ IF route_to_dobot(result)
                  THEN /\ dobot_queue' = queue_put(dobot_queue,
                              [image_path |-> ocr_item,
                               province |-> result.province])
                       /\ dobot_unfinished' = dobot_unfinished + 1
                       /\ dobot_put_log' = Append(dobot_put_log, ocr_item)
                  ELSE UNCHANGED << dobot_queue, dobot_unfinished,
                                    dobot_put_log >>
    /\ ocr_unfinished' = ocr_unfinished - 1
    /\ ocr_item' = 0
    /\ ocr_pc' = "top"
    /\ UNCHANGED << main_pc, typhoon_api_key, db_api_url, save_to_db,
                    enable_dobot, dobot_simulation, is_running, folder,
                    processed_dir, ocr_queue, mon_pc, new_files,
                    processed_files, dobot_pc, dobot_item, pick_success,
                    arm_log, ctrl, ocr_put_log, ocr_get_log, dobot_get_log,
                    sort_of, increments, reg, call, province_in >>

(***************************************************************************)
(* dobot_worker                                                            *)
(***************************************************************************)

\* `while self.is_running`
dobot_check_running ==
    /\ dobot_pc = "top"
    /\ dobot_pc' = IF is_running THEN "poll" ELSE "done"
    /\ UNCHANGED << main_pc, typhoon_api_key, db_api_url, save_to_db,
                    enable_dobot, dobot_simulation, is_running, folder,
                    processed_dir, ocr_queue, ocr_unfinished, dobot_queue,
                    dobot_unfinished, mon_pc, new_files, processed_files,
                    ocr_pc, ocr_item, dobot_item, pick_success, arm_log, ctrl,
                    stats, ocr_put_log, ocr_get_log, dobot_put_log,
                    dobot_get_log, result_of, sort_of, increments, reg, call,
                    province_in >>

\* Mutant of dobot_queue_ready: the worker looks at the OCR queue as well.
dobot_queue_ready_ocr == ocr_queue # << >> /\ dobot_queue # << >>

\* `not self.dobot_queue.empty()`
dobot_queue_ready == dobot_queue # << >>

\* `if not self.dobot_queue.empty()`: get the next record, else sleep(0.5).
dobot_poll ==
    /\ dobot_pc = "poll"
    /\ IF dobot_queue_ready
         THEN /\ dobot_item' = queue_get(dobot_queue).item
              /\ dobot_queue' = queue_get(dobot_queue).rest
              /\ dobot_get_log' = Append(dobot_get_log,
                                         queue_get(dobot_queue).item.image_path)
              /\ arm_log' = << >>
              /\ dobot_pc' = "pick"
         ELSE /\ dobot_pc' = "top"
              /\ UNCHANGED << dobot_item, dobot_queue, dobot_get_log, arm_log >>
    /\ UNCHANGED << main_pc, typhoon_api_key, db_api_url, save_to_db,
                    enable_dobot, dobot_simulation, is_running, folder,
                    processed_dir, ocr_queue, ocr_unfinished, dobot_unfinished,
                    mon_pc, new_files, processed_files, ocr_pc, ocr_item,
                    pick_success, ctrl, stats, ocr_put_log, ocr_get_log,
                    dobot_put_log, result_of, sort_of, increments, reg, call,
                    province_in >>

\* Mutant of dobot_pick: the image is moved to processed/ whether or not the
\* sort succeeded.
dobot_pick_archives_always ==
    /\ dobot_pc = "pick"
    /\ \E failAt \in 0 .. NumCmds :
         LET r == pick_and_place(ctrl, dobot_item.province, failAt)
         IN  /\ ctrl' = r.ctrl
             /\ arm_log' = r.cmds
             /\ pick_success' = r.ok
             /\ stats' = [stats EXCEPT
                    !.dobot_sorted = IF r.ok THEN @ + 1 ELSE @,
                    !.dobot_failed = IF r.ok THEN @ ELSE @ + 1]
             /\ sort_of' = [sort_of EXCEPT ![dobot_item.image_path] =
                                IF r.ok THEN "sorted" ELSE "failed"]
             /\ IF dobot_item.image_path \in folder
                  THEN /\ folder' = folder \ {dobot_item.image_path}
                       /\ processed_dir' = processed_dir
                                             \cup {dobot_item.image_path}
                  ELSE UNCHANGED << folder, processed_dir >>
    /\ dobot_pc' = "home"
    /\ UNCHANGED << main_pc, typhoon_api_key, db_api_url, save_to_db,
                    enable_dobot, dobot_simulation, is_running, ocr_queue,
                    ocr_unfinished, dobot_queue, dobot_unfinished, mon_pc,
                    new_files, processed_files, ocr_pc, ocr_item, dobot_item,
                    ocr_put_log, ocr_get_log, dobot_put_log, dobot_get_log,
                    result_of, increments, reg, call, province_in >>

\* pick_and_place returns; statistics; on success move_to_processed
\* renames the image into processed/ if it still exists.
dobot_pick ==
    /\ dobot_pc = "pick"
    /\ \E failAt \in 0 .. NumCmds :
         LET r == pick_and_place(ctrl, dobot_item.province, failAt)
         IN  /\ ctrl' = r.ctrl
             /\ arm_log' = r.cmds
             /\ pick_success' = r.ok
             /\ stats' = [stats EXCEPT
                    !.dobot_sorted = IF r.ok THEN @ + 1 ELSE @,
                    !.dobot_failed = IF r.ok THEN @ ELSE @ + 1]
             /\ sort_of' = [sort_of EXCEPT ![dobot_item.image_path] =
                                IF r.ok THEN "sorted" ELSE "failed"]
             /\ IF r.ok /\ dobot_item.image_path \in folder
                  THEN /\ folder' = folder \ {dobot_item.image_path}
                       /\ processed_dir' = processed_dir
                                             \cup {dobot_item.image_path}
                  ELSE UNCHANGED << folder, processed_dir >>
    /\ dobot_pc' = "home"
    /\ UNCHANGED << main_pc, typhoon_api_key, db_api_url, save_to_db,
                    enable_dobot, dobot_simulation, is_running, ocr_queue,
                    ocr_unfinished, dobot_queue, dobot_unfinished, mon_pc,
                    new_files, processed_files, ocr_pc, ocr_item, dobot_item,
                    ocr_put_log, ocr_get_log, dobot_put_log, dobot_get_log,
                    result_of, increments, reg, call, province_in >>

\* Mutant of dobot_home: the arm is sent Home only after a successful sort.
dobot_home_on_success ==
    /\ dobot_pc = "home"
    /\ \E failAt \in {0, 1} :
         arm_log' = IF pick_success
                      THEN Append(arm_log, Cmd(ctrl, "Home", "HOME", 1, failAt))
                      ELSE arm_log
    /\ dobot_unfinished' = dobot_unfinished - 1
    /\ dobot_item' = NoItem
    /\ dobot_pc' = "top"
    /\ UNCHANGED << main_pc, typhoon_api_key, db_api_url, save_to_db,
                    enable_dobot, dobot_simulation, is_running, folder,
                    processed_dir, ocr_queue, ocr_unfinished, dobot_queue,
                    mon_pc, new_files, processed_files, ocr_pc, ocr_item,
                    pick_success, ctrl, stats, ocr_put_log, ocr_get_log,
                    dobot_put_log, dobot_get_log, result_of, sort_of,
                    increments, reg, call, province_in >>

\* move_home("...") after the item, then task_done.
dobot_home ==
    /\ dobot_pc = "home"
    /\ \E failAt \in {0, 1} :
         arm_log' = Append(arm_log, Cmd(ctrl, "Home", "HOME", 1, failAt))
    /\ dobot_unfinished' = dobot_unfinished - 1
    /\ dobot_item' = NoItem
    /\ dobot_pc' = "top"
    /\ UNCHANGED << main_pc, typhoon_api_key, db_api_url, save_to_db,
                    enable_dobot, dobot_simulation, is_running, folder,
                    processed_dir, ocr_queue, ocr_unfinished, dobot_queue,
                    mon_pc, new_files, processed_files, ocr_pc, ocr_item,
                    pick_success, ctrl, stats, ocr_put_log, ocr_get_log,
                    dobot_put_log, dobot_get_log, result_of, sort_of,
                    increments, reg, call, province_in >>

(***************************************************************************)
(* shutdown                                                                *)
(***************************************************************************)

\* camera.run() returns (quit key, KeyboardInterrupt, or the camera did not
\* open) and shutdown() clears the flag.
shutdown_signal ==
    /\ main_pc \in {"camera", "camera_failed"}
    /\ is_running' = FALSE
    /\ main_pc' = "sd_check_ocr"
    /\ UNCHANGED << typhoon_api_key, db_api_url, save_to_db, enable_dobot,
                    dobot_simulation, folder, processed_dir, ocr_queue,
                    ocr_unfinished, dobot_queue, dobot_unfinished, mon_pc,
                    new_files, processed_files, ocr_pc, ocr_item, dobot_pc,
                    dobot_item, pick_success, arm_log, ctrl, stats,
                    ocr_put_log, ocr_get_log, dobot_put_log, dobot_get_log,
                    result_of, sort_of, increments, reg, call, province_in >>

\* `if not self.ocr_queue.empty()`: go on to ocr_queue.join() or skip it.
shutdown_check_ocr ==
    /\ main_pc = "sd_check_ocr"
    /\ main_pc' = IF ocr_queue # << >> THEN "sd_join_ocr" ELSE "sd_check_dobot"
    /\ UNCHANGED << typhoon_api_key, db_api_url, save_to_db, enable_dobot,
                    dobot_simulation, is_running, folder, processed_dir,
                    ocr_queue, ocr_unfinished, dobot_queue, dobot_unfinished,
                    mon_pc, new_files, processed_files, ocr_pc, ocr_item,
                    dobot_pc, dobot_item, pick_success, arm_log, ctrl, stats,
                    ocr_put_log, ocr_get_log, dobot_put_log, dobot_get_log,
                    result_of, sort_of, increments, reg, call, province_in >>

\* ocr_queue.join(): returns once every put has been matched by task_done.
shutdown_join_ocr ==
    /\ main_pc = "sd_join_ocr"
    /\ ocr_unfinished = 0
    /\ main_pc' = "sd_check_dobot"
    /\ UNCHANGED << typhoon_api_key, db_api_url, save_to_db, enable_dobot,
                    dobot_simulation, is_running, folder, processed_dir,
                    ocr_queue, ocr_unfinished, dobot_queue, dobot_unfinished,
                    mon_pc, new_files, processed_files, ocr_pc, ocr_item,
                    dobot_pc, dobot_item, pick_success, arm_log, ctrl, stats,
                    ocr_put_log, ocr_get_log, dobot_put_log, dobot_get_log,
                    result_of, sort_of, increments, reg, call, province_in >>

\* `if self.enable_dobot and not self.dobot_queue.empty()`
shutdown_check_dobot ==
    /\ main_pc = "sd_check_dobot"
    /\ main_pc' = IF enable_dobot /\ dobot_queue # << >>
                    THEN "sd_join_dobot" ELSE "sd_join_threads"
    /\ UNCHANGED << typhoon_api_key, db_api_url, save_to_db, enable_dobot,
                    dobot_simulation, is_running, folder, processed_dir,
                    ocr_queue, ocr_unfinished, dobot_queue, dobot_unfinished,
                    mon_pc, new_files, processed_files, ocr_pc, ocr_item,
                    dobot_pc, dobot_item, pick_success, arm_log, ctrl, stats,
                    ocr_put_log, ocr_get_log, dobot_put_log, dobot_get_log,
                    result_of, sort_of, increments, reg, call, province_in >>

\* dobot_queue.join()
shutdown_join_dobot ==
    /\ main_pc = "sd_join_dobot"
    /\ dobot_unfinished = 0
    /\ main_pc' = "sd_join_threads"
    /\ UNCHANGED << typhoon_api_key, db_api_url, save_to_db, enable_dobot,
                    dobot_simulation, is_running, folder, processed_dir,
                    ocr_queue, ocr_unfinished, dobot_queue, dobot_unfinished,
                    mon_pc, new_files, processed_files, ocr_pc, ocr_item,
                    dobot_pc, dobot_item, pick_success, arm_log, ctrl, stats,
                    ocr_put_log, ocr_get_log, dobot_put_log, dobot_get_log,
                    result_of, sort_of, increments, reg, call, province_in >>

\* thread.join(timeout=5) returns when the thread has ended, or after the
\* timeout.  The sleeps of the loops (0.5 s, 1 s, process_interval = 2 s)
\* are shorter than the timeout; only a thread inside an external call (the
\* OCR call, an arm motion) can outlast it.
join_returns(pc, blocked) == ~Alive(pc) \/ pc \in blocked

\* `for thread in [ocr_thread, dobot_thread, monitor_thread]: join(timeout=5)`
shutdown_join_threads ==
    /\ main_pc = "sd_join_threads"
    /\ join_returns(ocr_pc, {"call"})
    /\ join_returns(dobot_pc, {"pick", "home"})
    /\ join_returns(mon_pc, {})
    /\ main_pc' = "sd_disconnect"
    /\ UNCHANGED << typhoon_api_key, db_api_url, save_to_db, enable_dobot,
                    dobot_simulation, is_running, folder, processed_dir,
                    ocr_queue, ocr_unfinished, dobot_queue, dobot_unfinished,
                    mon_pc, new_files, processed_files, ocr_pc, ocr_item,
                    dobot_pc, dobot_item, pick_success, arm_log, ctrl, stats,
                    ocr_put_log, ocr_get_log, dobot_put_log, dobot_get_log,
                    result_of, sort_of, increments, reg, call, province_in >>

\* disconnect() sends the arm Home before closing a physical handle.
disconnect_moves_home(c) == c.exists /\ c.dobot /\ ~c.simulation_mode

\* `if self.dobot_controller: disconnect()`: with a physical handle the
\* main thread enters move_home; otherwise is_connected is cleared and
\* shutdown() runs to its end.
shutdown_disconnect ==
    /\ main_pc = "sd_disconnect"
    /\ IF disconnect_moves_home(ctrl)
         THEN /\ main_pc' = "sd_homing"
              /\ ctrl' = ctrl
         ELSE /\ main_pc' = "returned"
              /\ ctrl' = [ctrl EXCEPT !.is_connected = FALSE]
    /\ UNCHANGED << typhoon_api_key, db_api_url, save_to_db, enable_dobot,
                    dobot_simulation, is_running, folder, processed_dir,
                    ocr_queue, ocr_unfinished, dobot_queue, dobot_unfinished,
                    mon_pc, new_files, processed_files, ocr_pc, ocr_item,
                    dobot_pc, dobot_item, pick_success, arm_log, stats,
                    ocr_put_log, ocr_get_log, dobot_put_log, dobot_get_log,
                    result_of, sort_of, increments, reg, call, province_in >>

\* disconnect(): move_home has completed; close the handle, clear
\* is_connected; shutdown() prints its summary and returns.
shutdown_close ==
    /\ main_pc = "sd_homing"
    /\ ctrl' = [ctrl EXCEPT !.is_connected = FALSE]
    /\ main_pc' = "returned"
    /\ UNCHANGED << typhoon_api_key, db_api_url, save_to_db, enable_dobot,
                    dobot_simulation, is_running, folder, processed_dir,
                    ocr_queue, ocr_unfinished, dobot_queue, dobot_unfinished,
                    mon_pc, new_files, processed_files, ocr_pc, ocr_item,
                    dobot_pc, dobot_item, pick_success, arm_log, stats,
                    ocr_put_log, ocr_get_log, dobot_put_log, dobot_get_log,
                    result_of, sort_of, increments, reg, call, province_in >>

\* run() has returned to main(), main() returns and the interpreter exits.
\* The three worker threads were created with daemon=True, so a thread
\* that is still alive, because its join timed out, ends where it is.
process_exit ==
    /\ main_pc = "returned"
    /\ \E pc \in {mon_pc, ocr_pc, dobot_pc} : Alive(pc)
    /\ mon_pc' = IF Alive(mon_pc) THEN "killed" ELSE mon_pc
    /\ ocr_pc' = IF Alive(ocr_pc) THEN "killed" ELSE ocr_pc
    /\ dobot_pc' = IF Alive(dobot_pc) THEN "killed" ELSE dobot_pc
    /\ UNCHANGED << main_pc, typhoon_api_key, db_api_url, save_to_db,
                    enable_dobot, dobot_simulation, is_running, folder,
                    processed_dir, ocr_queue, ocr_unfinished, dobot_queue,
                    dobot_unfinished, new_files, processed_files, ocr_item,
                    dobot_item, pick_success, arm_log, ctrl, stats,
                    ocr_put_log, ocr_get_log, dobot_put_log, dobot_get_log,
                    result_of, sort_of, increments, reg, call, province_in >>

monitor_new_images ==
    \/ monitor_check_running
    \/ monitor_scan
    \/ monitor_scan_raises
    \/ monitor_enqueue

ocr_worker == ocr_check_running \/ ocr_poll \/ ocr_process

dobot_worker == dobot_check_running \/ dobot_poll \/ dobot_pick \/ dobot_home

shutdown ==
    \/ shutdown_signal
    \/ shutdown_check_ocr
    \/ shutdown_join_ocr
    \/ shutdown_check_dobot
    \/ shutdown_join_dobot
    \/ shutdown_join_threads
    \/ shutdown_disconnect
    \/ shutdown_close

Next ==
    \/ capture_image
    \/ run
    \/ monitor_new_images
    \/ ocr_worker
    \/ dobot_worker
    \/ shutdown
    \/ process_exit

Spec == Init /\ [][Next]_vars

\* The pipeline with DB persistence requested.
DbSpec == InitDb /\ [][Next]_vars

\* The steps of a pipeline whose camera opened and is never quit:
\* shutdown() is not called.
NextRunning ==
    \/ capture_image
    \/ run_with_camera(TRUE)
    \/ monitor_new_images
    \/ ocr_worker
    \/ dobot_worker

\* The pipeline without shutdown, its three worker threads scheduled fairly.
RunningSpec ==
    /\ Init
    /\ [][NextRunning]_vars
    /\ WF_vars(monitor_new_images)
    /\ WF_vars(ocr_worker)
    /\ WF_vars(dobot_worker)

(***************************************************************************)
(* The statistics under concurrency: `self.stats[key] += 1` is not one     *)
(* step of the interpreter.  It reads stats[key], adds one and stores the  *)
(* result, and another thread can run between the read and the store.      *)
(* Each thread executes the increments of its own loop, in any number and  *)
(* order, interleaved with the other threads.                              *)
(***************************************************************************)

\* Mutant of monitor_stat_keys: the monitor counts OCR runs as well.
monitor_stat_keys_shared == {"images_captured", "ocr_processed"}

\* The counters monitor_new_images increments.
monitor_stat_keys == {"images_captured"}

\* The counters ocr_worker increments.
ocr_stat_keys == {"ocr_processed", "ocr_success", "db_saved", "ocr_failed"}

\* The counters dobot_worker increments.
dobot_stat_keys == {"dobot_sorted", "dobot_failed"}

\* The counters a thread increments.
stat_keys_of(t) ==
    CASE t = "monitor" -> monitor_stat_keys
      [] t = "ocr"     -> ocr_stat_keys
      [] t = "dobot"   -> dobot_stat_keys

\* A thread starts `self.stats[key] += 1`: it reads the counter.
stats_load(t) ==
    /\ reg[t] = NoIncrement
    /\ \E key \in stat_keys_of(t) :
         /\ increments[key] < MaxFiles
         /\ reg' = [reg EXCEPT ![t] = [key |-> key, loaded |-> stats[key]]]
    /\ UNCHANGED << main_pc, typhoon_api_key, db_api_url, save_to_db,
                    enable_dobot, dobot_simulation, is_running, folder,
                    processed_dir, ocr_queue, ocr_unfinished, dobot_queue,
                    dobot_unfinished, mon_pc, new_files, processed_files,
                    ocr_pc, ocr_item, dobot_pc, dobot_item, pick_success,
                    arm_log, ctrl, stats, ocr_put_log, ocr_get_log,
                    dobot_put_log, dobot_get_log, result_of, sort_of,
                    increments, call, province_in >>

\* The thread completes the statement: it stores the value read plus one.
stats_store(t) ==
    /\ reg[t] # NoIncrement
    /\ stats' = [stats EXCEPT ![reg[t].key] = reg[t].loaded + 1]
    /\ increments' = [increments EXCEPT ![reg[t].key] = @ + 1]
    /\ reg' = [reg EXCEPT ![t] = NoIncrement]
    /\ UNCHANGED << main_pc, typhoon_api_key, db_api_url, save_to_db,
                    enable_dobot, dobot_simulation, is_running, folder,
                    processed_dir, ocr_queue, ocr_unfinished, dobot_queue,
                    dobot_unfinished, mon_pc, new_files, processed_files,
                    ocr_pc, ocr_item, dobot_pc, dobot_item, pick_success,
                    arm_log, ctrl, ocr_put_log, ocr_get_log, dobot_put_log,
                    dobot_get_log, result_of, sort_of, call, province_in >>

\* The pipeline of main() with its three threads started.
InitStats ==
    /\ InitDb
    /\ typhoon_api_key /\ db_api_url /\ enable_dobot /\ ~dobot_simulation

NextStats == \E t \in Threads : stats_load(t) \/ stats_store(t)

StatsSpec == InitStats /\ [][NextStats]_vars

(***************************************************************************)
(* The functions of process.py called on their own.  `call` holds the      *)
(* function, its argument and what it returned ("pending" before the       *)
(* return); the pipeline is constructed and not started.                   *)
(***************************************************************************)

pipeline_vars ==
    << main_pc, typhoon_api_key, db_api_url, save_to_db, enable_dobot,
       dobot_simulation, is_running, folder, processed_dir, ocr_queue,
       ocr_unfinished, dobot_queue, dobot_unfinished, mon_pc, new_files,
       processed_files, ocr_pc, ocr_item, dobot_pc, dobot_item, pick_success,
       arm_log, ctrl, stats, ocr_put_log, ocr_get_log, dobot_put_log,
       dobot_get_log, result_of, sort_of, increments, reg, province_in >>

\* A CompleteParcelSortingSystem on its own: OCR key present, no arm.
InitProcessor ==
    /\ Constructed(FALSE)
    /\ typhoon_api_key /\ ~enable_dobot /\ ~dobot_simulation

\* The six region names, in the order of region_mapping.
Regions == { region_mapping[i].region : i \in 1 .. Len(region_mapping) }

\* How many times the same lookup is repeated.
MaxCalls == 2

\* The provinces asked for: the canonical names, the sentinel, and names
\* that are no province.
RegionInputs ==
    Range(all_provinces) \cup {"Unspecified", "", "Bangkok(Latin)", "Reserve"}

InitRegion ==
    /\ InitProcessor
    /\ \E province \in RegionInputs :
         call = [fn |-> "get_region", arg |-> province, ret |-> "pending",
                 previous |-> "pending", calls |-> 0]

\* One call of get_region(call.arg).
get_region_call ==
    /\ call.fn = "get_region"
    /\ call.calls < MaxCalls
    /\ call' = [call EXCEPT !.ret = get_region(call.arg),
                            !.previous = call.ret,
                            !.calls = @ + 1]
    /\ UNCHANGED pipeline_vars

RegionSpec == InitRegion /\ [][get_region_call]_vars

\* The three spellings of a province: the bare canonical name, and the
\* name behind "จ." or "จังหวัด".
Spellings == {"bare", "cho_dot", "changwat"}

spelled(province, spelling) ==
    CASE spelling = "bare"     -> thai[province]
      [] spelling = "cho_dot"  -> CHO_DOT \o thai[province]
      [] spelling = "changwat" -> CHANGWAT \o thai[province]

InitProvince ==
    /\ InitProcessor
    /\ \E province \in Range(all_provinces), spelling \in Spellings :
         call = [fn |-> "extract_province_from_text", province |-> province,
                 spelling |-> spelling, arg |-> spelled(province, spelling),
                 ret |-> "pending"]

\* The call of extract_province_from_text(call.arg).
extract_province_call ==
    /\ call.fn = "extract_province_from_text"
    /\ call.ret = "pending"
    /\ call' = [call EXCEPT !.ret = extract_province_from_text(call.arg)]
    /\ UNCHANGED pipeline_vars

ProvinceSpec == InitProvince /\ [][extract_province_call]_vars

InitParcel ==
    /\ InitProcessor
    /\ \E record \in Records :
         call = [fn |-> "process_single_parcel", arg |-> record,
                 returned |-> FALSE, ret |-> FailedResult]

\* process_single_parcel on an image whose OCR text decodes to call.arg.
process_single_parcel_call ==
    /\ call.fn = "process_single_parcel"
    /\ ~call.returned
    /\ call' = [call EXCEPT !.returned = TRUE,
                            !.ret = parcel_result(call.arg)]
    /\ UNCHANGED pipeline_vars

ParcelSpec == InitParcel /\ [][process_single_parcel_call]_vars

\* The pieces the OCR texts are made of: 'ผู้ส่ง', 'ผู้รับ', 'From', 'to',
\* ':', a space, a line feed, 'A', 'B' and 'tel:081234567'.
Pieces ==
    { << 3612, 3641, 3657, 3626, 3656, 3591 >>,
      << 3612, 3641, 3657, 3619, 3633, 3610 >>,
      << 70, 114, 111, 109 >>, << 116, 111 >>, << 58 >>, << 32 >>, << 10 >>,
      << 65 >>, << 66 >>,
      << 116, 101, 108, 58, 48, 56, 49, 50, 51, 52, 53, 54, 55 >> }

\* The largest number of pieces in a text.
MaxParts == 3

RECURSIVE Flatten(_)
Flatten(parts) ==
    IF parts = << >> THEN << >> ELSE Head(parts) \o Flatten(Tail(parts))

SplitInputs ==
    { Flatten(parts) : parts \in UNION { [1 .. n -> Pieces] : n \in 1 .. MaxParts } }

InitSplit ==
    /\ InitProcessor
    /\ \E text \in SplitInputs :
         call = [fn |-> "smart_split_sender_recipient", arg |-> text,
                 returned |-> FALSE, sender_text |-> << >>,
                 recipient_text |-> << >>]

\* The call of smart_split_sender_recipient(call.arg).
smart_split_call ==
    /\ call.fn = "smart_split_sender_recipient"
    /\ ~call.returned
    /\ LET halves == smart_split_sender_recipient(call.arg)
       IN  call' = [call EXCEPT !.returned = TRUE,
                                !.sender_text = halves[1],
                                !.recipient_text = halves[2]]
    /\ UNCHANGED pipeline_vars

SplitSpec == InitSplit /\ [][smart_split_call]_vars

\* A DobotController used on its own, as in the test program at the end of
\* dobot_controller.py: constructed, connected, asked to pick and place,
\* disconnected.  call counts the pick_and_place calls and keeps the
\* province of the last one.
MaxPicks == 3

\* The provinces pick_and_place is asked for: the four drop points and two
\* that have none.
PickInputs == DROP_POINTS \cup {"Bangkok", "Unspecified"}

controller_rest ==
    << main_pc, typhoon_api_key, db_api_url, save_to_db, enable_dobot,
       dobot_simulation, is_running, folder, processed_dir, ocr_queue,
       ocr_unfinished, dobot_queue, dobot_unfinished, mon_pc, new_files,
       processed_files, ocr_pc, ocr_item, dobot_pc, dobot_item, stats,
       ocr_put_log, ocr_get_log, dobot_put_log, dobot_get_log, result_of,
       sort_of, increments, reg, province_in >>

InitController ==
    /\ Constructed(FALSE)
    /\ typhoon_api_key /\ ~enable_dobot /\ ~dobot_simulation
    /\ call = [fn |-> "DobotController", picks |-> 0, province |-> "None",
               was_connected |-> FALSE]

\* DobotController(simulation_mode=...)
controller_new ==
    /\ call.fn = "DobotController"
    /\ ~ctrl.exists
    /\ \E simulation \in BOOLEAN : ctrl' = NewController(simulation)
    /\ UNCHANGED << call, arm_log, pick_success, controller_rest >>

\* controller.connect()
controller_connect ==
    /\ call.fn = "DobotController"
    /\ ctrl.exists /\ ~ctrl.is_connected
    /\ \E outcome \in ConnectOutcomes : ctrl' = connect(ctrl, outcome)
    /\ UNCHANGED << call, arm_log, pick_success, controller_rest >>

\* controller.pick_and_place(province)
controller_pick_and_place ==
    /\ call.fn = "DobotController"
    /\ ctrl.exists
    /\ call.picks < MaxPicks
    /\ \E province \in PickInputs, failAt \in 0 .. NumCmds :
         LET r == pick_and_place(ctrl, province, failAt)
         IN  /\ ctrl' = r.ctrl
             /\ arm_log' = r.cmds
             /\ pick_success' = r.ok
             /\ call' = [call EXCEPT !.picks = @ + 1, !.province = province,
                                      !.was_connected = ctrl.is_connected]
    /\ UNCHANGED controller_rest

\* controller.disconnect()
controller_disconnect ==
    /\ call.fn = "DobotController"
    /\ ctrl.exists /\ ctrl.is_connected
    /\ ctrl' = [ctrl EXCEPT !.is_connected = FALSE]
    /\ arm_log' = IF disconnect_moves_home(ctrl)
                    THEN << Cmd(ctrl, "Home", "HOME", 1, 0) >>
                    ELSE << >>
    /\ UNCHANGED << call, pick_success, controller_rest >>

ControllerNext ==
    \/ controller_new
    \/ controller_connect
    \/ controller_pick_and_place
    \/ controller_disconnect

ControllerSpec == InitController /\ [][ControllerNext]_vars

\* process_single_parcel, step 4 (tracking number), called for one parcel
\* after the other.  The clock counts half seconds; call keeps the clock
\* and the tracking numbers given so far.
TicksPerSecond == 2
MaxClock == 8
MaxParcels == 3

\* datetime.now().strftime('%Y%m%d%H%M%S'): the time to the whole second.
strftime(now) == now \div TicksPerSecond

\* What the OCR record of parcel k carries as tracking_number: nothing
\* (None), the empty string, or a number read from the label, a different
\* one on every parcel.
LabelTrackings(k) ==
    { [kind |-> "None", n |-> 0], [kind |-> "", n |-> 0],
      [kind |-> "label", n |-> k] }

\* `if not tracking or tracking == "": tracking = f"PKG{...}"`
tracking_number(tracking, now) ==
    IF tracking.kind \in {"None", ""}
      THEN [kind |-> "PKG", n |-> strftime(now)]
      ELSE tracking

InitTracking ==
    /\ InitProcessor
    /\ call = [fn |-> "tracking_number", now |-> 0, issued |-> << >>]

\* One parcel is processed; the OCR request before step 4 has taken at
\* least half a second.
tracking_call ==
    /\ call.fn = "tracking_number"
    /\ Len(call.issued) < MaxParcels
    /\ \E now \in call.now + 1 .. MaxClock :
       \E tracking \in LabelTrackings(Len(call.issued) + 1) :
         call' = [call EXCEPT
                    !.now = now,
                    !.issued = Append(@, tracking_number(tracking, now))]
    /\ UNCHANGED pipeline_vars

TrackingSpec == InitTracking /\ [][tracking_call]_vars

\* normalize_ocr_json_result applied to a decoded record, and again to what
\* it returned.
Filler(n) == [i \in 1 .. n |-> 120]

\* Label texts: a recipient block, a label with both blocks, a block
\* without markers.
RecipientBlock == << 3612, 3641, 3657, 3619, 3633, 3610, 58, 32, 3626, 3617, 3594, 3634, 3618, 32, 3592, 46, 3648, 3594, 3637, 3618, 3591, 3651, 3627, 3617, 3656 >>

WholeLabel == << 3612, 3641, 3657, 3626, 3656, 3591, 58, 32, 65, 32, 3592, 46, 3594, 3621, 3610, 3640, 3619, 3637, 32, 3612, 3641, 3657, 3619, 3633, 3610, 58, 32, 66, 32, 3592, 46, 3648, 3594, 3637, 3618, 3591, 3651, 3627, 3617, 3656 >>

PlainBlock == << 65, 10, 3592, 46, 3594, 3621, 3610, 3640, 3619, 3637, 10, 66, 10, 3592, 46, 3648, 3594, 3637, 3618, 3591, 3651, 3627, 3617, 3656 >>

\* The strings a field holds: short ones, and ones longer than LongSender.
ShortTexts == {<< >>, RecipientBlock, WholeLabel, PlainBlock, Filler(LongSender)}

LongTexts ==
    { Filler(LongSender + 1),
      WholeLabel \o << 10 >> \o Filler(LongSender),
      PlainBlock \o << 10 >> \o Filler(LongSender) }

\* Objects that are already structured.
Infos ==
    { [name |-> << 66 >>, phone |-> << >>, address |-> << >>,
       province |-> "ChiangMai"],
      [name |-> << >>, phone |-> << >>, address |-> << >>, province |-> ""] }

SenderFields ==
    {Missing, Null, EmptyObject} \cup { Dict(i) : i \in Infos }
      \cup { Str(t) : t \in ShortTexts \cup LongTexts }

RecipientFields ==
    {Missing, Null, EmptyObject} \cup { Dict(i) : i \in Infos }
      \cup { Str(t) : t \in {<< >>, RecipientBlock, PlainBlock} }

RepairInputs ==
    [sender : SenderFields, recipient : RecipientFields,
     tracking_number : {<< >>, << 84, 72, 49 >>}]

InitRepair ==
    /\ InitProcessor
    /\ \E data \in RepairInputs :
         call = [fn |-> "normalize_ocr_json_result", arg |-> data,
                 ret |-> data, previous |-> data, calls |-> 0]

\* normalize_ocr_json_result on what the call before returned.
normalize_call ==
    /\ call.fn = "normalize_ocr_json_result"
    /\ call.calls < MaxCalls
    /\ call' = [call EXCEPT !.ret = normalize_ocr_json_result(call.ret),
                            !.previous = call.ret,
                            !.calls = @ + 1]
    /\ UNCHANGED pipeline_vars

RepairSpec == InitRepair /\ [][normalize_call]_vars

\* process_single_parcel on an image whose OCR text is no JSON: the record
\* comes from extract_data_from_text.  The texts are labels with a sender
\* part that begins with a sender marker and a recipient part that begins
\* with a recipient marker; the sender lives in ชลบุรี, the recipient in
\* เชียงใหม่.
SenderLabels == { << 3612, 3641, 3657, 3626, 3656, 3591, 58, 32 >>, << 70, 114, 111, 109, 58, 32 >> }

RecipientLabels == { << 3612, 3641, 3657, 3619, 3633, 3610, 58, 32 >>, << 82, 101, 99, 105, 112, 105, 101, 110, 116, 58, 32 >> }

SenderNames == { << 65 >>, << 84, 111, 109 >> }

RecipientNames == { << 66 >>, << 3626, 3617, 3594, 3634, 3618 >> }

SenderPlaces == { << >>, << 32 >> \o CHO_DOT \o thai["ChonBuri"] }

RecipientPlaces ==
    { << 32 >> \o CHO_DOT \o thai["ChiangMai"],
      << 32, 3607, 3637, 3656, 3629, 3618, 3641, 3656, 58, 32, 50, 32 >> \o CHO_DOT \o thai["ChiangMai"] }

PartSeps == { << 32 >>, << 10 >> }

TextInputs ==
    { sl \o sn \o sp \o sep \o rl \o rn \o rp :
        sl \in SenderLabels, sn \in SenderNames, sp \in SenderPlaces,
        sep \in PartSeps, rl \in RecipientLabels, rn \in RecipientNames,
        rp \in RecipientPlaces }

\* The named text that stands for the characters of an address in a
\* decoded record: the one extract_province_from_text treats alike.
Named(t) ==
    IF t = << >> THEN ""
    ELSE IF extract_province_from_text(t) = "None" THEN "Bangkok(Latin)"
    ELSE extract_province_from_text(t)

\* An info dict as a decoded object.  Name and phone are not read by the
\* steps that follow.
decoded_info(info) ==
    [filled |-> TRUE, province |-> info.province,
     address |-> Named(info.address), name |-> "", phone |-> ""]

\* Steps 3 to 8 of process_single_parcel on the record made from text.
text_result(data) ==
    parcel_result([sender |-> decoded_info(data.sender),
                   recipient |-> decoded_info(data.recipient)])

InitText ==
    /\ Constructed(FALSE)
    /\ typhoon_api_key /\ ~dobot_simulation
    /\ \E text \in TextInputs :
         call = [fn |-> "extract_data_from_text", arg |-> text,
                 returned |-> FALSE,
                 data |-> [sender |-> EmptyInfo, recipient |-> EmptyInfo,
                           tracking_number |-> << >>],
                 ret |-> FailedResult]

\* process_single_parcel on an image whose OCR text is call.arg.
extract_data_from_text_call ==
    /\ call.fn = "extract_data_from_text"
    /\ ~call.returned
    /\ \E data \in { extract_data_from_text(call.arg) } :
         call' = [call EXCEPT !.returned = TRUE,
                              !.data = data,
                              !.ret = text_result(data)]
    /\ UNCHANGED pipeline_vars

TextSpec == InitText /\ [][extract_data_from_text_call]_vars

(***************************************************************************)
(* The stage counters at statement granularity                             *)
(***************************************************************************)

\* Monitor, main.py:309-310: `self.ocr_queue.put(filepath)` and
\* `processed_files.add(filename)`; the counter has not been touched yet.
monitor_put ==
    /\ mon_pc = "iter"
    /\ new_files # << >>
    /\ LET f == Head(new_files)
       IN  IF f \in folder
             THEN /\ ocr_queue' = queue_put(ocr_queue, f)
                  /\ ocr_unfinished' = ocr_unfinished + 1
                  /\ processed_files' = mark_seen(processed_files, f)
                  /\ ocr_put_log' = Append(ocr_put_log, f)
                  /\ mon_pc' = "count"
                  /\ new_files' = new_files
             ELSE /\ new_files' = Tail(new_files)
                  /\ mon_pc' = IF Tail(new_files) = << >> THEN "top" ELSE "iter"
                  /\ UNCHANGED << ocr_queue, ocr_unfinished, processed_files,
                                  ocr_put_log >>
    /\ UNCHANGED << main_pc, typhoon_api_key, db_api_url, save_to_db,
                    enable_dobot, dobot_simulation, is_running, folder,
                    processed_dir, dobot_queue, dobot_unfinished, ocr_pc,
                    ocr_item, dobot_pc, dobot_item, pick_success, arm_log,
                    ctrl, stats, ocr_get_log, dobot_put_log, dobot_get_log,
                    result_of, sort_of, increments, reg, call, province_in >>

\* Monitor, main.py:311: `self.stats['images_captured'] += 1`, then the
\* next file of the sorted listing.
monitor_count ==
    /\ mon_pc = "count"
    /\ stats' = [stats EXCEPT !.images_captured = @ + 1]
    /\ new_files' = Tail(new_files)
    /\ mon_pc' = IF Tail(new_files) = << >> THEN "top" ELSE "iter"
    /\ UNCHANGED << main_pc, typhoon_api_key, db_api_url, save_to_db,
                    enable_dobot, dobot_simulation, is_running, folder,
                    processed_dir, ocr_queue, ocr_unfinished, dobot_queue,
                    dobot_unfinished, processed_files, ocr_pc, ocr_item,
                    dobot_pc, dobot_item, pick_success, arm_log, ctrl,
                    ocr_put_log, ocr_get_log, dobot_put_log, dobot_get_log,
                    result_of, sort_of, increments, reg, call, province_in >>

\* OCR worker, main.py:187-208 and 221-222: process_single_parcel returns
\* and the counters ocr_processed, ocr_success / ocr_failed and db_saved
\* are written; the record has not been handed over yet.
ocr_result ==
    /\ ocr_pc = "call"
    /\ \E label \in Labels, db \in DbResponses :
         LET result == process_single_parcel(label, save_to_db /\ db_api, db)
         IN  /\ result_of' = [result_of EXCEPT ![ocr_item] = result]
             /\ stats' = [stats EXCEPT
                    !.ocr_processed = @ + 1,
                    !.ocr_success = IF result.success THEN @ + 1 ELSE @,
                    !.db_saved = IF result.db_saved THEN @ + 1 ELSE @,
                    !.ocr_failed = IF result.success THEN @ ELSE @ + 1]
    /\ ocr_pc' = "handover"
    /\ UNCHANGED << main_pc, typhoon_api_key, db_api_url, save_to_db,
                    enable_dobot, dobot_simulation, is_running, folder,
                    processed_dir, ocr_queue, ocr_unfinished, dobot_queue,
                    dobot_unfinished, mon_pc, new_files, processed_files,
                    ocr_item, dobot_pc, dobot_item, pick_success, arm_log,
                    ctrl, ocr_put_log, ocr_get_log, dobot_put_log,
                    dobot_get_log, sort_of, increments, reg, call,
                    province_in >>

\* OCR worker, main.py:210-225: `self.dobot_queue.put(dobot_data)` for a
\* routable record, then `self.ocr_queue.task_done()`.
ocr_handover ==
    /\ ocr_pc = "handover"
    /\ IF route_to_dobot(result_of[ocr_item])
         THEN /\ dobot_queue' = queue_put(dobot_queue,
                     [image_path |-> ocr_item,
                      province |-> result_of[ocr_item].province])
              /\ dobot_unfinished' = dobot_unfinished + 1
              /\ dobot_put_log' = Append(dobot_put_log, ocr_item)
         ELSE UNCHANGED << dobot_queue, dobot_unfinished, dobot_put_log >>
    /\ ocr_unfinished' = ocr_unfinished - 1
    /\ ocr_item' = 0
    /\ ocr_pc' = "top"
    /\ UNCHANGED << main_pc, typhoon_api_key, db_api_url, save_to_db,
                    enable_dobot, dobot_simulation, is_running, folder,
                    processed_dir, ocr_queue, mon_pc, new_files,
                    processed_files, dobot_pc, dobot_item, pick_success,
                    arm_log, ctrl, stats, ocr_put_log, ocr_get_log,
                    dobot_get_log, result_of, sort_of, increments, reg, call,
                    province_in >>

NextCount ==
    \/ capture_image
    \/ run_with_camera(TRUE)
    \/ monitor_check_running
    \/ monitor_scan
    \/ monitor_put
    \/ monitor_count
    \/ ocr_check_running
    \/ ocr_poll
    \/ ocr_result
    \/ ocr_handover
    \/ dobot_worker

\* The running pipeline with the queue operations and the counter
\* updates of the monitor and of the OCR worker as separate steps.
CountSpec == Init /\ [][NextCount]_vars

(***************************************************************************)
(* process_single_parcel and the counters of the processor                 *)
(***************************************************************************)

\* CompleteParcelSortingSystem.stats after __init__ (the two tables
\* by_region and by_province are left out).
NewProcessorStats ==
    [total_processed |-> 0, successful |-> 0, failed |-> 0, db_saved |-> 0,
     db_failed |-> 0]

\* The result dict as initialised, in the fields the pipeline reads.
InitialResult == [success |-> FALSE, province |-> "None", db_saved |-> FALSE]

\* The three `self.stats["failed"] += 1; return result` of the try block:
\* no OCR text, no record decoded, or a record without sender and
\* recipient.
returns_early(label) ==
    \/ label.ocr \in {"empty", "nodata"}
    \/ /\ label.ocr = "record"
       /\ ~label.record.sender.filled
       /\ ~label.record.recipient.filled

\* An exception inside the try block: a collaborator raises (image
\* enhancement, OCR request, decoding), or normalize_province_data calls
\* strip() on a province that is not a string.  All of them are before
\* result.update; save_parcel_to_db catches every Exception itself and the
\* statistics of step 10 are dict updates with string keys.
raises_in_try(label) ==
    \/ label.ocr = "raise"
    \/ /\ label.ocr = "record"
       /\ ~returns_early(label)
       /\ label.record.sender.province \notin Texts

\* Mutant of try_block: a DB answer that is not a success raises after
\* result.update has set success.
try_block_db_raises(counters, label, save, db) ==
    IF returns_early(label)
      THEN [result |-> InitialResult, raised |-> FALSE,
            stats |-> [counters EXCEPT !.failed = @ + 1]]
    ELSE IF raises_in_try(label)
      THEN [result |-> InitialResult, raised |-> TRUE, stats |-> counters]
    ELSE IF save /\ db # "saved"
      THEN [result |-> process_single_parcel(label, save, db),
            raised |-> TRUE, stats |-> counters]
    ELSE [result |-> process_single_parcel(label, save, db),
          raised |-> FALSE,
          stats |-> [counters EXCEPT
                       !.db_saved = IF save THEN @ + 1 ELSE @,
                       !.successful = @ + 1]]

\* The try block of process_single_parcel: the result it has built, the
\* counters it has written, and whether it was left by an exception.
try_block(counters, label, save, db) ==
    IF returns_early(label)
      THEN [result |-> InitialResult, raised |-> FALSE,
            stats |-> [counters EXCEPT !.failed = @ + 1]]
    ELSE IF raises_in_try(label)
      THEN [result |-> InitialResult, raised |-> TRUE, stats |-> counters]
    ELSE [result |-> process_single_parcel(label, save, db),
          raised |-> FALSE,
          stats |-> [counters EXCEPT
                       !.db_saved = IF save /\ db = "saved" THEN @ + 1 ELSE @,
                       !.db_failed = IF save /\ db # "saved" THEN @ + 1 ELSE @,
                       !.successful = @ + 1]]

\* `except Exception`: the failure is counted and the result returned.
except_block(body) ==
    IF body.raised
      THEN [body EXCEPT !.raised = FALSE, !.stats.failed = @ + 1]
      ELSE body

\* `finally: self.stats["total_processed"] += 1`
finally_block(body) == [body EXCEPT !.stats.total_processed = @ + 1]

\* How many times process_single_parcel is called in a row.
MaxRuns == 3

\* A processor is constructed; call keeps its counters, the counters before
\* the last call and what the last call returned.
InitCounted ==
    /\ InitProcessor
    /\ call = [fn |-> "CompleteParcelSortingSystem", calls |-> 0,
               stats |-> NewProcessorStats, before |-> NewProcessorStats,
               ret |-> InitialResult, raised |-> FALSE]

\* process_single_parcel(image_path, enhance_image, save_to_db) on an
\* image the OCR answers with label; db is the answer of the DB API.
process_single_parcel_counted ==
    /\ call.fn = "CompleteParcelSortingSystem"
    /\ call.calls < MaxRuns
    /\ \E label \in Labels, save \in BOOLEAN, db \in DbResponses :
         \E out \in {finally_block(except_block(
                        try_block(call.stats, label, save, db)))} :
            call' = [call EXCEPT !.calls = @ + 1,
                                 !.before = call.stats,
                                 !.stats = out.stats,
                                 !.ret = out.result,
                                 !.raised = out.raised]
    /\ UNCHANGED pipeline_vars

CountedSpec == InitCounted /\ [][process_single_parcel_counted]_vars

(***************************************************************************)
(* shutdown under fair scheduling                                          *)
(***************************************************************************)

\* The pipeline with every thread scheduled again and again: the main
\* thread inside shutdown() and each worker thread take their next step
\* whenever it stays possible.  New images appear or not (no fairness).
ShutdownSpec ==
    /\ Init
    /\ [][Next]_vars
    /\ WF_vars(shutdown)
    /\ WF_vars(monitor_new_images)
    /\ WF_vars(ocr_worker)
    /\ WF_vars(dobot_worker)

(***************************************************************************)
(* camera.py: ParcelCamera                                                 *)
(***************************************************************************)

\* self.detection_cooldown, in seconds.
detection_cooldown == 2

\* How many frames the loop of run() reads.
MaxFrames == 4

\* The keys waitKey can return that run() looks at, and no key.
Keys == {"none", "space", "c", "a", "q"}

\* detect_parcel: with auto_capture on and a model the YOLO result (yolo:
\* a parcel box with enough confidence centred in the ROI), in every other
\* case the contour detection (contour: the largest contour of the ROI
\* is larger than min_contour_area).
detect_parcel(c, yolo, contour) ==
    IF c.auto_capture /\ c.model THEN yolo ELSE contour

\* capture_image(frame, auto): the cooldown for an automatic capture, then
\* imwrite and the entry in captured_images; written is FALSE when imwrite
\* raises.  saved is the history of the files written.
capture_image_at(c, auto, written) ==
    IF auto /\ c.clock - c.last_capture_time < detection_cooldown
      THEN c
    ELSE LET timed == IF auto THEN [c EXCEPT !.last_capture_time = c.clock]
                      ELSE c
         IN  IF written
               THEN [timed EXCEPT
                       !.captured_images = Append(@, [auto |-> auto]),
                       !.saved = Append(@, [auto |-> auto])]
               ELSE timed

\* `if self.auto_capture and detected: self.capture_image(frame, auto=True)`
auto_capture_step(c, detected, written) ==
    IF c.auto_capture /\ detected THEN capture_image_at(c, TRUE, written) ELSE c

\* The key handling of one iteration of run(); Q and ESC leave the loop
\* and cleanup() runs.
key_step(c, key, written) ==
    CASE key = "space" -> capture_image_at(c, FALSE, written)
      [] key = "c" -> [c EXCEPT !.captured_images = << >>]
      [] key = "a" -> [c EXCEPT !.auto_capture = ~@]
      [] key = "q" -> [c EXCEPT !.pc = "closed"]
      [] OTHER -> c

\* ParcelCamera(auto_capture=...) is constructed; load_yolo_model has set
\* self.model to the model or, after an exception, to None.  The clock is
\* time.time(), in seconds, far from last_capture_time = 0.
InitCamera ==
    /\ Constructed(FALSE)
    /\ typhoon_api_key /\ ~enable_dobot /\ ~dobot_simulation
    /\ \E loaded \in BOOLEAN, auto \in BOOLEAN :
         call = [fn |-> "ParcelCamera", pc |-> "constructed",
                 model |-> loaded, auto_capture |-> auto,
                 captured_images |-> << >>, saved |-> << >>,
                 last_capture_time |-> 0, clock |-> detection_cooldown,
                 frames |-> 0, key |-> "none", detected |-> FALSE,
                 written |-> FALSE]

\* run(): initialize_camera opens the camera, or run() returns.
camera_run ==
    /\ call.fn = "ParcelCamera"
    /\ call.pc = "constructed"
    /\ \E opened \in BOOLEAN :
         call' = [call EXCEPT !.pc = IF opened THEN "running" ELSE "closed"]
    /\ UNCHANGED pipeline_vars

\* cap.read() fails: the loop is left and cleanup() runs.
camera_read_fails ==
    /\ call.fn = "ParcelCamera"
    /\ call.pc = "running"
    /\ call' = [call EXCEPT !.pc = "closed", !.key = "none",
                            !.detected = FALSE]
    /\ UNCHANGED pipeline_vars

\* One iteration of the loop of run(): a frame is read dt seconds after
\* the last one, detect_parcel, the automatic capture, the key.
camera_frame ==
    /\ call.fn = "ParcelCamera"
    /\ call.pc = "running"
    /\ call.frames < MaxFrames
    /\ \E dt \in 0 .. detection_cooldown, yolo \in BOOLEAN,
          contour \in BOOLEAN, key \in Keys, written \in BOOLEAN :
         \E c \in {[call EXCEPT !.clock = @ + dt, !.frames = @ + 1,
                                !.key = key, !.written = written,
                                !.detected = detect_parcel(call, yolo, contour)]} :
            call' = key_step(auto_capture_step(c, c.detected, written),
                             key, written)
    /\ UNCHANGED pipeline_vars

NextCamera == camera_run \/ camera_read_fails \/ camera_frame

CameraSpec == InitCamera /\ [][NextCamera]_vars

(***************************************************************************)
(* Properties                                                              *)
(***************************************************************************)

IsPrefix(s, t) == Len(s) <= Len(t) /\ SubSeq(t, 1, Len(s)) = s

\* Position of x in the sequence s (0 if absent).
Pos(s, x) == IF x \in Range(s) THEN CHOOSE i \in 1 .. Len(s) : s[i] = x ELSE 0

\* shutdown() has cleared the running flag.
ShutdownSignaled ==
    main_pc \notin {"idle", "halted", "camera", "camera_failed"}

Processed(f) == result_of[f] # NoResult

\* The image has reached a terminal status: OCR failed, extracted but not
\* routed, sorted, or sort failed.
Terminal(f) ==
    /\ Processed(f)
    /\ f \in Range(dobot_put_log) => sort_of[f] # "none"

\* C1: when shutdown() has returned, both queues are empty, every enqueued
\* item has been processed and no monitor, OCR or Dobot worker is running.
C1_PipelineDrained ==
    main_pc = "returned" =>
        /\ ocr_queue = << >> /\ ocr_unfinished = 0
        /\ dobot_queue = << >> /\ dobot_unfinished = 0
        /\ ~Alive(mon_pc) /\ ~Alive(ocr_pc) /\ ~Alive(dobot_pc)

\* C2: once shutdown has cleared the running flag, no step puts a further
\* image on the OCR queue.
C2_NoEnqueueAfterSignal ==
    [][ShutdownSignaled => ocr_put_log' = ocr_put_log]_vars

\* C3: an image whose OCR or extraction failed, or whose province is
\* unresolved (sentinel, empty or absent), is never put on the Dobot queue;
\* it is counted in the statistics.
C3_UnresolvedNotSorted ==
    /\ \A f \in Files :
         (Processed(f) /\ (~result_of[f].success
                           \/ result_of[f].province
                                \in {"Unspecified", "", "None"}))
            => f \notin Range(dobot_put_log)
    /\ \A i \in 1 .. Len(dobot_queue) :
         dobot_queue[i].province \notin {"Unspecified", "", "None"}
    /\ stats.ocr_processed = Cardinality({f \in Files : Processed(f)})
    /\ stats.ocr_failed =
         Cardinality({f \in Files : Processed(f) /\ ~result_of[f].success})
    /\ stats.ocr_success =
         Cardinality({f \in Files : Processed(f) /\ result_of[f].success})

\* Witness of C3: with the arm enabled, one image failed OCR and another
\* was extracted with an unresolved province; both are counted.
C3_Witness ==
    /\ enable_dobot
    /\ \E f, g \in Files :
         /\ Processed(f) /\ ~result_of[f].success
         /\ Processed(g) /\ result_of[g].success
         /\ result_of[g].province = "Unspecified"
    /\ stats.ocr_failed = 1 /\ stats.ocr_success = 1

\* C4: a pick_and_place that ran for a province without a drop point
\* succeeded and released the parcel at the reserve drop point.
C4_ReserveFallback ==
    (dobot_pc = "home" /\ arm_log # << >>
        /\ dobot_item.province \notin DROP_POINTS)
      => /\ pick_success
         /\ \E i \in 1 .. Len(arm_log) :
               arm_log[i].cmd = "SuctionOff" /\ arm_log[i].at = "Reserve"

\* C5: if an arm command raised during a pick-and-place sequence, the
\* sequence was aborted and the run is reported and counted as a failure.
C5_RaiseAborts ==
    (dobot_pc = "home" /\ \E i \in 1 .. Len(arm_log) : arm_log[i].raised)
      => /\ ~pick_success
         /\ sort_of[dobot_item.image_path] = "failed"
         /\ \A i, j \in 1 .. Len(arm_log) :
               (arm_log[i].raised /\ i < j)
                  => arm_log[j].cmd \in {"SuctionOff", "Home"}

\* C6: the main thread never commands the arm (move_home of disconnect)
\* while the Dobot worker is in the middle of an item.
C6_ArmSingleOwner ==
    ~(main_pc = "sd_homing" /\ dobot_pc \in {"pick", "home"})

\* C7: each queue is FIFO with one item in progress at a time: the order
\* of gets is the order of puts, and an item is taken only after every
\* item taken before it has been finished.
C7_FifoPerQueue ==
    /\ IsPrefix(ocr_get_log, ocr_put_log)
    /\ IsPrefix(dobot_get_log, dobot_put_log)
    /\ \A i \in 1 .. Len(ocr_get_log) - 1 :
         Processed(ocr_get_log[i]) /\ ocr_item # ocr_get_log[i]
    /\ \A i \in 1 .. Len(dobot_get_log) - 1 :
         /\ sort_of[dobot_get_log[i]] # "none"
         /\ dobot_item.image_path # dobot_get_log[i]

\* Witness of C7: two images went through both queues.
C7_Witness ==
    /\ Len(ocr_get_log) >= 2
    /\ Len(dobot_get_log) >= 2

C9_EventuallyTerminal ==
    \A f \in Files : (f \in Range(ocr_put_log)) ~> Terminal(f)

\* Witness of C9: with the pipeline still running, one image has been
\* sorted and another has failed at the arm.
C9_Witness ==
    /\ main_pc = "camera"
    /\ \E f, g \in Files : sort_of[f] = "sorted" /\ sort_of[g] = "failed"

NoDuplicates(s) == \A i, j \in 1 .. Len(s) : i # j => s[i] # s[j]

\* The initial arm connection failed: the configuration asked for the
\* physical arm and the controller is in simulation mode.
ConnectionFailed ==
    enable_dobot /\ ~dobot_simulation /\ ctrl.exists /\ ctrl.simulation_mode

\* C11: with the OCR key missing, run() halts before any worker is started:
\* the running flag is never set, no monitor, OCR or Dobot thread exists and
\* no image is ever enqueued or processed.
C11_MissingKeyHalts ==
    ~typhoon_api_key =>
        /\ main_pc \in {"idle", "halted"}
        /\ ~is_running
        /\ mon_pc = "none" /\ ocr_pc = "none" /\ dobot_pc = "none"
        /\ ~ctrl.exists
        /\ ocr_put_log = << >> /\ ocr_get_log = << >>
        /\ dobot_put_log = << >> /\ dobot_get_log = << >>
        /\ \A f \in Files : ~Processed(f) /\ sort_of[f] = "none"
        /\ \A k \in StatKeys : stats[k] = 0

\* Witness of C11: run() has halted for the missing key while an image
\* waits in the watched folder.
C11_Witness ==
    /\ ~typhoon_api_key
    /\ main_pc = "halted"
    /\ folder # {}

\* C12: when run() validates a configuration with the OCR key present, DB
\* persistence enabled and the DB API URL missing, it does not halt: DB
\* persistence is switched off and the workers are started.
C12_MissingDbSettingsContinue ==
    [][(/\ main_pc = "idle" /\ main_pc' # "idle"
        /\ typhoon_api_key /\ save_to_db /\ ~db_api_url)
         => (/\ main_pc' # "halted"
             /\ ~save_to_db'
             /\ is_running'
             /\ Alive(mon_pc') /\ Alive(ocr_pc'))]_vars

\* C13: after a failed initial arm connection the controller is in
\* simulation mode and stays marked connected until shutdown() disconnects
\* it, the pipeline has started all its workers, and a pick_and_place that
\* ran before the disconnection issued its sequence (to no physical handle)
\* instead of being rejected as not connected.
C13_ConnectFailureDowngrades ==
    ConnectionFailed =>
        /\ main_pc # "returned" => ctrl.is_connected
        /\ main_pc \in {"camera", "camera_failed"} =>
              Alive(mon_pc) /\ Alive(ocr_pc) /\ Alive(dobot_pc)
        /\ (dobot_pc = "home" /\ main_pc # "returned") =>
              /\ Len(arm_log) >= 4
              /\ \A i \in 1 .. Len(arm_log) : ~arm_log[i].sent
              /\ dobot_item.province \in DROP_POINTS => pick_success

\* Witness of C13: after a failed connection, with the pipeline running,
\* the Dobot worker has completed a pick-and-place in simulation.
C13_Witness ==
    /\ ConnectionFailed
    /\ main_pc = "camera"
    /\ dobot_pc = "home" /\ pick_success
    /\ Len(arm_log) = NumCmds

\* C14: when the camera does not open, the steps that follow leave the
\* running flag set and the monitor and the OCR worker in their loops.
C14_CameraFailureLocal ==
    [][main_pc = "camera_failed"
         => (is_running' /\ Alive(mon_pc') /\ Alive(ocr_pc'))]_vars

\* C15: no automatic retry: no image is taken for OCR twice, no record is
\* put on or taken from the Dobot queue twice, and an image whose OCR
\* failed or whose sort failed is on neither queue again.
C15_NoRetry ==
    /\ NoDuplicates(ocr_get_log)
    /\ NoDuplicates(dobot_put_log)
    /\ NoDuplicates(dobot_get_log)
    /\ \A f \in Files :
         (Processed(f) \/ sort_of[f] # "none") =>
            /\ f \notin Range(ocr_queue)
            /\ ocr_item # f
    /\ \A f \in Files :
         sort_of[f] # "none" =>
            \A i \in 1 .. Len(dobot_queue) : dobot_queue[i].image_path # f

\* Witness of C15: an image whose OCR failed and an image whose sort failed
\* are both still in the watched folder while the monitor starts another
\* directory scan.
C15_Witness ==
    /\ mon_pc = "scan"
    /\ \E f, g \in Files :
         /\ f \in folder /\ Processed(f) /\ ~result_of[f].success
         /\ g \in folder /\ sort_of[g] = "failed"

\* C16: no statistics increment is lost: in every interleaving of the
\* monitor, the OCR worker and the Dobot worker, each counter equals the
\* number of `+= 1` statements completed on it.
C16_NoLostIncrement ==
    \A k \in StatKeys : stats[k] = increments[k]

\* Witness of C16: all three threads are between the read and the store of
\* an increment, after earlier increments of each.
C16_Witness ==
    /\ \A t \in Threads : reg[t] # NoIncrement
    /\ stats["images_captured"] >= 1
    /\ stats["ocr_processed"] >= 1 /\ stats["db_saved"] >= 1
    /\ stats["dobot_sorted"] >= 1

\* C18: get_region is a function of the province alone: a repeated call
\* returns the same region; every canonical province lies in exactly one of
\* the six regions and get_region returns that region; the unresolved
\* sentinel (and any name that is no province) gets the region sentinel.
C18_RegionFunctionOfProvince ==
    (call.fn = "get_region" /\ call.ret # "pending") =>
        /\ call.previous # "pending" => call.previous = call.ret
        /\ call.arg \in Range(all_provinces) =>
             /\ call.ret \in Regions
             /\ Cardinality(Regions) = 6
             /\ \A i \in 1 .. Len(region_mapping) :
                  call.arg \in region_mapping[i].provinces
                    <=> region_mapping[i].region = call.ret
        /\ call.arg \notin Range(all_provinces) =>
             call.ret = "UnspecifiedRegion"

\* A canonical province was looked up twice.
C18_Witness ==
    /\ call.fn = "get_region"
    /\ call.calls = MaxCalls
    /\ call.arg = "ChiangMai"
    /\ call.ret = "North"

\* C19: for every canonical province P, extract_province_from_text returns
\* exactly P for the text P, for "จ." followed by P and for
\* "จังหวัด" followed by P.
C19_CanonicalSpellingsExtracted ==
    (call.fn = "extract_province_from_text" /\ call.ret # "pending") =>
        call.ret = call.province

\* The province was extracted from its name behind "จังหวัด".
C19_Witness ==
    /\ call.fn = "extract_province_from_text"
    /\ call.spelling = "changwat"
    /\ call.province = "ChiangMai"
    /\ call.ret = "ChiangMai"

\* C17: the province, the region and the routing decision that
\* process_single_parcel yields for a record are those it yields for every
\* record that differs from it only in the fields of the sender object.
C17_ProvinceFromRecipientOnly ==
    (call.fn = "process_single_parcel" /\ call.returned) =>
        \A sender \in Senders :
            LET other == parcel_result([call.arg EXCEPT !.sender = sender])
            IN  /\ other.province = call.ret.province
                /\ other.region = call.ret.region
                /\ other.delivery_route = call.ret.delivery_route

\* The characters of a text that are not white space, in order.
Content(t) == SelectSeq(t, LAMBDA c : c \notin WhiteSpace)

\* C20: for a text with a sender marker and a recipient marker the splitter
\* returns two non-empty halves, and the halves, taken in the order in which
\* they stand in the text, hold the whole content of the text: nothing is
\* dropped.
C20_SplitKeepsContent ==
    ( /\ call.fn = "smart_split_sender_recipient"
      /\ call.returned
      /\ marker_positions(call.arg, SENDER_WORDS) # {}
      /\ marker_positions(call.arg, Range(RECIPIENT_WORDS)) # {} ) =>
        /\ call.sender_text # << >>
        /\ call.recipient_text # << >>
        /\ \/ Content(call.sender_text \o call.recipient_text)
                = Content(call.arg)
           \/ Content(call.recipient_text \o call.sender_text)
                = Content(call.arg)

\* C24: the sort worker takes an item from the sort queue only when the
\* last command it issued for the item before, sorted or failed, was the
\* move to Home.
C24_HomeBeforeNextItem ==
    [][(dobot_get_log' # dobot_get_log /\ dobot_get_log # << >>)
          => /\ arm_log # << >>
             /\ arm_log[Len(arm_log)].cmd = "Home"]_vars

\* Witness of C24: a sort has failed, the arm has been sent Home and the
\* worker is about to take the next item.
C24_Witness ==
    /\ dobot_pc = "poll"
    /\ dobot_queue # << >>
    /\ dobot_get_log # << >>
    /\ sort_of[dobot_get_log[Len(dobot_get_log)]] = "failed"
    /\ arm_log # << >>
    /\ arm_log[Len(arm_log)].cmd = "Home"

\* C30: while the controller is in simulation mode, also when it entered
\* it because connect() failed after the handle was created, no command of
\* the arm goes to the handle and disconnect() neither moves the arm nor
\* closes the handle.
C30_SimulationSendsNothing ==
    (ctrl.exists /\ ctrl.simulation_mode)
        => /\ \A i \in 1..Len(arm_log) : ~arm_log[i].sent /\ ~arm_log[i].raised
           /\ main_pc # "sd_homing"

\* Witness of C30: connect() failed after the handle was created, and a
\* whole pick-and-place sequence and the move Home have been issued.
C30_Witness ==
    /\ ctrl.exists /\ ctrl.simulation_mode /\ ctrl.dobot
    /\ Len(arm_log) = NumCmds + 1
    /\ arm_log[Len(arm_log)].cmd = "Home"
    /\ main_pc = "returned"

\* The drop point pick_and_place uses for a province.
C27_Target ==
    IF call.province \in DROP_POINTS THEN call.province ELSE "Reserve"

\* C27: a pick_and_place that succeeds adds one to the counter of its
\* target province; one that fails, for whatever reason, adds one to the
\* failure counter and leaves the counters of the provinces as they were.
C27_EveryOutcomeCounted ==
    [][(call.fn = "DobotController" /\ call'.picks = call.picks + 1)
         => IF pick_success'
              THEN ctrl'.stats.by_province =
                     [ctrl.stats.by_province EXCEPT ![C27_Target'] = @ + 1]
              ELSE /\ ctrl'.stats.failed_drops = ctrl.stats.failed_drops + 1
                   /\ ctrl'.stats.by_province = ctrl.stats.by_province]_vars

\* C26: when pick_and_place has returned True, its commands are the eight
\* of PICK_SEQUENCE in that order, each one completed before the next was
\* issued, and the move to the drop point starts at SAFETY_Z whenever it
\* starts over the pickup point.
C26_OrderedAndSafe ==
    (dobot_pc = "home" /\ pick_success)
      => /\ [i \in 1 .. Len(arm_log) |-> arm_log[i].cmd] = PICK_SEQUENCE
         /\ \A i \in 1 .. Len(arm_log) : ~arm_log[i].raised
         /\ \A i \in 1 .. Len(arm_log) :
               LET before == arm_position(arm_log, i - 1,
                                          [at |-> "HOME", z |-> "HOME_Z"])
               IN  (arm_log[i].cmd = "DropApproach" /\ before.at = "PICKUP")
                      => before.z = "SAFETY_Z"

C29_InFlightCompleted ==
    /\ ~Alive(ocr_pc) =>
          /\ ocr_item = 0
          /\ \A f \in Range(ocr_get_log) : Processed(f)
          /\ ocr_unfinished = Len(ocr_queue)
    /\ ~Alive(dobot_pc) =>
          /\ dobot_item = NoItem
          /\ \A f \in Range(dobot_get_log) : sort_of[f] # "none"
          /\ dobot_unfinished = Len(dobot_queue)

\* C22: no two parcels have the same tracking number, also when both
\* numbers were made from the time of processing.
C22_TrackingUnique ==
    call.fn = "tracking_number" =>
        \A i, j \in 1 .. Len(call.issued) :
            i # j => call.issued[i] # call.issued[j]

\* A field that is an object.
IsObject(field) == field.kind \in {"dict", "empty"}

\* C21: normalize_ocr_json_result leaves a record whose sender and
\* recipient are objects as it is, and applied to its own result it
\* changes nothing more.
C21_RepairIdempotent ==
    call.fn = "normalize_ocr_json_result" =>
        /\ (call.calls >= 1 /\ IsObject(call.arg.sender)
              /\ IsObject(call.arg.recipient)) => call.ret = call.arg
        /\ call.calls >= 2 => call.ret = call.previous

\* Witness of C21: a record with a long string as sender was repaired by
\* the first call and left alone by the second.
C21_Witness ==
    /\ call.fn = "normalize_ocr_json_result"
    /\ call.calls = 2
    /\ call.arg.sender.kind = "str"
    /\ call.ret # call.arg
    /\ call.ret = call.previous
    /\ call.ret.recipient.info.province = "ChiangMai"

\* C28: after normalize_ocr_json_result on a record whose sender is a
\* string longer than 100 characters, or whose recipient is a string, or
\* which has no recipient, sender and recipient are both objects with the
\* person fields.
C28_MalformedRepaired ==
    (/\ call.fn = "normalize_ocr_json_result"
     /\ call.calls >= 1
     /\ \/ call.arg.sender.kind = "str"
              /\ Len(call.arg.sender.text) > LongSender
        \/ call.arg.recipient.kind = "str"
        \/ call.arg.recipient.kind = "missing")
      => /\ call.ret.sender.kind = "dict"
         /\ call.ret.recipient.kind = "dict"

\* C23: for a text whose sender part begins with a sender marker and whose
\* recipient part, behind it, begins with a recipient marker and holds
\* จ.เชียงใหม่, the record has เชียงใหม่ as the recipient's province, the
\* result has the region of เชียงใหม่, and with sorting enabled the result is
\* handed to the sort queue, whatever the sender part names.
C23_RecipientProvinceWins ==
    (call.fn = "extract_data_from_text" /\ call.returned) =>
        /\ call.data.recipient.province = "ChiangMai"
        /\ call.ret.region = get_region("ChiangMai")
        /\ enable_dobot => route_to_dobot(call.ret)

\* C37: pick_and_place on a controller that is not connected issues no
\* motion or suction command, returns False and leaves every counter of the
\* controller as it was.
C37_UnconnectedPickIsNoOp ==
    [][(call.fn = "DobotController" /\ call'.picks = call.picks + 1
          /\ ~ctrl.is_connected)
         => /\ arm_log' = << >>
            /\ ~pick_success'
            /\ ctrl'.stats = ctrl.stats
            /\ ctrl' = ctrl]_vars

\* Witness of C37: pick_and_place was called after disconnect(), on a
\* controller that had sorted a parcel before.
C37_Witness ==
    /\ call.fn = "DobotController"
    /\ call.picks >= 2
    /\ ~call.was_connected
    /\ ctrl.exists /\ ~ctrl.is_connected
    /\ ctrl.stats.successful_drops >= 1
    /\ arm_log = << >>
    /\ ~pick_success

\* The suction commands of a log that reached the arm and took effect.
C33_Suction(log) ==
    SelectSeq(log, LAMBDA c : c.cmd \in {"SuctionOn", "SuctionOff"}
                                /\ c.sent /\ ~c.raised)

\* C33: when pick_and_place has returned, with True or with False, the
\* suction is off: the last suction command that took effect, if there is
\* one, is the one that switches it off, so the move Home that follows is
\* made without a parcel.
C33_SuctionOffOnReturn ==
    dobot_pc = "home" =>
        \/ C33_Suction(arm_log) = << >>
        \/ C33_Suction(arm_log)[Len(C33_Suction(arm_log))].cmd = "SuctionOff"

\* C35: in every reachable state of every interleaving of the three
\* workers, ocr_processed <= images_captured and
\* dobot_sorted + dobot_failed <= ocr_success.
C35_StageCountersConserved ==
    /\ stats.ocr_processed <= stats.images_captured
    /\ stats.dobot_sorted + stats.dobot_failed <= stats.ocr_success

\* C34: every record put on the sort queue has a province of the canonical
\* province list, so that its region is not the unresolved-region sentinel
\* and its route is not the needs-manual-review route; a non-canonical
\* province left in recipient.province is never routed to sorting.
C34_SortQueueHoldsCanonicalProvinces ==
    \A i \in 1 .. Len(dobot_queue) :
        LET province == dobot_queue[i].province
            region   == get_region(province)
        IN  /\ province \in DOMAIN thai
            /\ region # "UnspecifiedRegion"
            /\ determine_delivery_route(province, region).center # "None"

\* C36: every call of process_single_parcel returns a result without
\* raising, adds one to total_processed and one to exactly one of
\* successful and failed, so that total_processed = successful + failed
\* after any sequence of calls; the result has success = TRUE exactly when
\* the call was counted as successful.
C36_EveryCallCountedOnce ==
    (call.fn = "CompleteParcelSortingSystem") =>
        /\ call.stats.total_processed = call.calls
        /\ call.stats.total_processed
             = call.stats.successful + call.stats.failed
        /\ call.calls > 0 =>
             /\ ~call.raised
             /\ call.stats.total_processed = call.before.total_processed + 1
             /\ call.stats.successful - call.before.successful \in {0, 1}
             /\ call.stats.failed - call.before.failed \in {0, 1}
             /\ call.ret.success
                  <=> call.stats.successful = call.before.successful + 1
             /\ ~call.ret.success
                  <=> call.stats.failed = call.before.failed + 1

\* Three calls have returned, one counted as failed after an exception or
\* an early return and one counted as successful with its record saved.
C36_Witness ==
    /\ call.fn = "CompleteParcelSortingSystem"
    /\ call.calls = MaxRuns
    /\ call.stats.failed >= 1
    /\ call.stats.db_saved >= 1
    /\ call.stats.db_failed >= 1
    /\ call.ret.success /\ call.ret.db_saved

\* C32: shutdown() always terminates: whatever the two queues hold and
\* whatever the workers are doing when it is called, it eventually returns
\* and does not wait forever on a queue no running worker will drain.
C32_ShutdownReturns ==
    (main_pc = "sd_check_ocr") ~> (main_pc = "returned")

\* C31: if the detection model failed to load, auto-capture is disabled:
\* with auto_capture on and no model no image is ever captured
\* automatically, while a manual capture (SPACE) still saves an image.
C31_NoModelNoAutoCapture ==
    [][(call.fn = "ParcelCamera" /\ ~call.model
          /\ call'.frames = call.frames + 1)
         => /\ SelectSeq(call'.saved, LAMBDA s : s.auto)
                 = SelectSeq(call.saved, LAMBDA s : s.auto)
            /\ (call'.key = "space" /\ call'.written)
                 => Len(SelectSeq(call'.saved, LAMBDA s : ~s.auto))
                      = Len(SelectSeq(call.saved, LAMBDA s : ~s.auto)) + 1]_vars

====
